---- MODULE Spec2Model ----
(***************************************************************************)
(* A model of the asn1tools command line interface                         *)
(* (src/asn1tools/__init__.py): the entry point _main, the convert         *)
(* subcommand and the interactive shell (specification Spec); of the       *)
(* benchmark script examples/benchmarks/codecs.py (BenchSpec); and of the  *)
(* (U)PER encoding of constrained INTEGERs and of SEQUENCEs with OPTIONAL  *)
(* components, as the specification of the package states it (PerSpec).    *)
(*                                                                         *)
(* Text is modelled character by character: a Python str is a sequence of  *)
(* one-character strings, a Python bytes object a sequence of integers in  *)
(* 0..255.  The parser, compiler and codec engines of the package are not  *)
(* part of the modelled sources; their results are inputs of the model,    *)
(* drawn from the outcomes their interface allows.                          *)
(***************************************************************************)
EXTENDS Integers, Sequences, FiniteSets, TLC

(***************************************************************************)
(* Bounds of the model.                                                    *)
(***************************************************************************)
\* The number of lines read from standard input by `convert ... -`.
MaxLines == 2

\* The number of lines entered at the shell prompt.
MaxCmds == 3

(***************************************************************************)
(* Words of the command line.                                              *)
(***************************************************************************)
s_ber == <<"b", "e", "r">>

s_der == <<"d", "e", "r">>

s_jer == <<"j", "e", "r">>

s_per == <<"p", "e", "r">>

s_uper == <<"u", "p", "e", "r">>

s_xer == <<"x", "e", "r">>

s_gser == <<"g", "s", "e", "r">>

s_zip == <<"z", "i", "p">>

s_convert == <<"c", "o", "n", "v", "e", "r", "t">>

s_shell == <<"s", "h", "e", "l", "l">>

s_compile == <<"c", "o", "m", "p", "i", "l", "e">>

s_help == <<"h", "e", "l", "p">>

s_exit == <<"e", "x", "i", "t">>

o_i == <<"-", "i">>

o_input_codec ==
    <<"-", "-", "i", "n", "p", "u", "t", "-", "c", "o", "d", "e", "c">>

o_o == <<"-", "o">>

o_output_codec ==
    <<"-", "-", "o", "u", "t", "p", "u", "t", "-", "c", "o", "d", "e", "c">>

o_h == <<"-", "h">>

o_help == <<"-", "-", "h", "e", "l", "p">>

o_d == <<"-", "d">>

o_debug == <<"-", "-", "d", "e", "b", "u", "g">>

o_v == <<"-", "v">>

o_verbose == <<"-", "-", "v", "e", "r", "b", "o", "s", "e">>

o_version == <<"-", "-", "v", "e", "r", "s", "i", "o", "n">>

s_dash == <<"-">>

s_0 == <<"0">>

s_1 == <<"1">>

s_2 == <<"2">>

s_3 == <<"3">>

\* ASN.1 specification files named on the command line (see parse_files).
f_good == <<"g">>

f_syntax == <<"p">>

f_semantic == <<"c">>

\* A type name.
s_T == <<"T">>

(***************************************************************************)
(* Python str and bytes operations used by the sources.                    *)
(***************************************************************************)
\* The characters str.strip() removes (ASCII whitespace).
Whitespace == {" ", "\t", "\n", "\r", "\f"}

\* The characters of the argument of hexstring.strip('\r\n').
CRLF == {"\r", "\n"}

\* The bytes that bytes.strip() removes.
WhitespaceBytes == {32, 9, 10, 13, 11, 12}

\* s.strip(chars): s without its leading and trailing members of chars.
Strip(s, chars) ==
    LET keep == {i \in 1..Len(s) : s[i] \notin chars}
    IN  IF keep = {} THEN <<>>
        ELSE LET a == CHOOSE i \in keep : \A j \in keep : i <= j
                 b == CHOOSE i \in keep : \A j \in keep : j <= i
             IN  SubSeq(s, a, b)

\* s.startswith(prefix)
StartsWith(s, prefix) ==
    /\ Len(s) >= Len(prefix)
    /\ SubSeq(s, 1, Len(prefix)) = prefix

RECURSIVE SplitFrom(_, _)
\* The words of s from position i on, separated by runs of whitespace.
SplitFrom(s, i) ==
    IF i > Len(s) THEN <<>>
    ELSE IF s[i] \in Whitespace THEN SplitFrom(s, i + 1)
    ELSE LET ends == {j \in i..Len(s) : j = Len(s) \/ s[j + 1] \in Whitespace}
             e == CHOOSE j \in ends : \A k \in ends : j <= k
         IN  <<SubSeq(s, i, e)>> \o SplitFrom(s, e + 1)

\* s.split()
Split(s) == SplitFrom(s, 1)

\* seq[1:]
Rest(seq) == IF seq = <<>> THEN <<>> ELSE Tail(seq)

HexDigits == <<"0", "1", "2", "3", "4", "5", "6", "7",
               "8", "9", "a", "b", "c", "d", "e", "f">>

UpperHexDigits == <<"0", "1", "2", "3", "4", "5", "6", "7",
                    "8", "9", "A", "B", "C", "D", "E", "F">>

IsHexDigit(c) ==
    \E i \in 1..16 : HexDigits[i] = c \/ UpperHexDigits[i] = c

HexValue(c) ==
    (CHOOSE i \in 1..16 : HexDigits[i] = c \/ UpperHexDigits[i] = c) - 1

\* The text of byte b under bytes.decode('latin-1'); bytes outside printable
\* ASCII are written <hh>.
Latin1Table ==
  <<
    "<00>", "<01>", "<02>", "<03>", "<04>", "<05>", "<06>", "<07>",
    "<08>", "\t", "\n", "<0b>", "<0c>", "\r", "<0e>", "<0f>",
    "<10>", "<11>", "<12>", "<13>", "<14>", "<15>", "<16>", "<17>",
    "<18>", "<19>", "<1a>", "<1b>", "<1c>", "<1d>", "<1e>", "<1f>",
    " ", "!", "\"", "#", "$", "%", "&", "'",
    "(", ")", "*", "+", ",", "-", ".", "/",
    "0", "1", "2", "3", "4", "5", "6", "7",
    "8", "9", ":", ";", "<", "=", ">", "?",
    "@", "A", "B", "C", "D", "E", "F", "G",
    "H", "I", "J", "K", "L", "M", "N", "O",
    "P", "Q", "R", "S", "T", "U", "V", "W",
    "X", "Y", "Z", "[", "\\", "]", "^", "_",
    "<60>", "a", "b", "c", "d", "e", "f", "g",
    "h", "i", "j", "k", "l", "m", "n", "o",
    "p", "q", "r", "s", "t", "u", "v", "w",
    "x", "y", "z", "{", "|", "}", "~", "<7f>",
    "<80>", "<81>", "<82>", "<83>", "<84>", "<85>", "<86>", "<87>",
    "<88>", "<89>", "<8a>", "<8b>", "<8c>", "<8d>", "<8e>", "<8f>",
    "<90>", "<91>", "<92>", "<93>", "<94>", "<95>", "<96>", "<97>",
    "<98>", "<99>", "<9a>", "<9b>", "<9c>", "<9d>", "<9e>", "<9f>",
    "<a0>", "<a1>", "<a2>", "<a3>", "<a4>", "<a5>", "<a6>", "<a7>",
    "<a8>", "<a9>", "<aa>", "<ab>", "<ac>", "<ad>", "<ae>", "<af>",
    "<b0>", "<b1>", "<b2>", "<b3>", "<b4>", "<b5>", "<b6>", "<b7>",
    "<b8>", "<b9>", "<ba>", "<bb>", "<bc>", "<bd>", "<be>", "<bf>",
    "<c0>", "<c1>", "<c2>", "<c3>", "<c4>", "<c5>", "<c6>", "<c7>",
    "<c8>", "<c9>", "<ca>", "<cb>", "<cc>", "<cd>", "<ce>", "<cf>",
    "<d0>", "<d1>", "<d2>", "<d3>", "<d4>", "<d5>", "<d6>", "<d7>",
    "<d8>", "<d9>", "<da>", "<db>", "<dc>", "<dd>", "<de>", "<df>",
    "<e0>", "<e1>", "<e2>", "<e3>", "<e4>", "<e5>", "<e6>", "<e7>",
    "<e8>", "<e9>", "<ea>", "<eb>", "<ec>", "<ed>", "<ee>", "<ef>",
    "<f0>", "<f1>", "<f2>", "<f3>", "<f4>", "<f5>", "<f6>", "<f7>",
    "<f8>", "<f9>", "<fa>", "<fb>", "<fc>", "<fd>", "<fe>", "<ff>"
  >>

\* data.decode('latin-1')
DecodeLatin1(data) == [i \in 1..Len(data) |-> Latin1Table[data[i] + 1]]

\* The ASCII codes of the characters of HexDigits.
HexDigitBytes == <<48, 49, 50, 51, 52, 53, 54, 55,
                   56, 57, 97, 98, 99, 100, 101, 102>>

\* binascii.hexlify(data)
Hexlify(data) ==
    [i \in 1..(2 * Len(data)) |->
        IF i % 2 = 1 THEN HexDigitBytes[(data[(i + 1) \div 2] \div 16) + 1]
        ELSE HexDigitBytes[(data[i \div 2] % 16) + 1]]

\* data.strip() on bytes
StripBytes(data) == Strip(data, WhitespaceBytes)

(***************************************************************************)
(* Exceptions.                                                             *)
(***************************************************************************)
NoExc == [type |-> "None", msg |-> <<>>]

Exc(type, msg) == [type |-> type, msg |-> msg]

\* str(e)
StrExc(e) == e.msg

\* binascii.unhexlify(hexstring): the octets, or the exception it raises.
Unhexlify(hexstring) ==
    IF Len(hexstring) % 2 # 0
    THEN [exc |-> Exc("binascii.Error", <<"Odd-length string">>), data |-> <<>>]
    ELSE IF \E i \in 1..Len(hexstring) : ~IsHexDigit(hexstring[i])
    THEN [exc |-> Exc("binascii.Error", <<"Non-hexadecimal digit found">>),
          data |-> <<>>]
    ELSE [exc |-> NoExc,
          data |-> [i \in 1..(Len(hexstring) \div 2) |->
                      16 * HexValue(hexstring[2 * i - 1])
                      + HexValue(hexstring[2 * i])]]

(***************************************************************************)
(* The package's parser, compiler and codec engines, as far as the command *)
(* line interface sees them.  Their code is not part of the modelled       *)
(* sources: parse_files and compile_dict are functions of the named files, *)
(* and the outcome of each decode and encode call is an input of the       *)
(* action that makes the call.                                             *)
(***************************************************************************)
\* Python's None, for a specification that is not compiled.
None == [none |-> TRUE]

\* Python's None, for the output codec the shell has not set.
NoCodec == <<>>

\* parse_files(specifications): the parse tree, or ParseError.
parse_files(specifications) ==
    IF \E i \in 1..Len(specifications) : specifications[i] = f_syntax
    THEN [exc |-> Exc("ParseError", <<"Invalid ASN.1 syntax">>),
          parsed |-> None]
    ELSE [exc |-> NoExc, parsed |-> [none |-> FALSE, files |-> specifications]]

\* compile_dict(parsed, codec): a Specification, or CompileError.
compile_dict(parsed, codec) ==
    IF \E i \in 1..Len(parsed.files) : parsed.files[i] # f_good
    THEN [exc |-> Exc("CompileError", <<"Type not found">>), spec |-> None]
    ELSE [exc |-> NoExc,
          spec |-> [none |-> FALSE, codec |-> codec, files |-> parsed.files]]

\* The values a decode call can return.
DecodedValues == {"v"}

\* The outcome of a call that is not made.
NotDecoded == [exc |-> NoExc, value |-> "none"]

NotEncoded == [exc |-> NoExc, data |-> <<>>]

\* What Specification.decode(type_name, data) can do: return a value or raise
\* DecodeError.
DecodeOutcomes ==
    {[exc |-> NoExc, value |-> v] : v \in DecodedValues}
    \cup {[exc |-> Exc("DecodeError", <<"member: out of data">>),
           value |-> "none"]}

\* The octets an encode call can return: a binary encoding (BER TRUE) and a
\* text encoding with white space around it (" T", line feed).
EncodedData == {<<1, 1, 255>>, <<32, 84, 10>>}

\* What Specification.encode(type_name, value) can do: return octets or raise
\* EncodeError.
EncodeOutcomes ==
    {[exc |-> NoExc, data |-> d] : d \in EncodedData}
    \cup {[exc |-> Exc("EncodeError", <<"member: bad value">>), data |-> <<>>]}

(***************************************************************************)
(* The record of a run: every call to the parser, the compiler and the     *)
(* codecs, every line read and every line printed to standard output, in   *)
(* the order in which they happen.                                         *)
(***************************************************************************)
\* print(text), called in the function named by
Stdout(by, text) == [op |-> "print", by |-> by, text |-> text]

\* Whether a call of op is among the calls made.
Reaches(made, op) == \E i \in 1..Len(made) : made[i].op = op

(***************************************************************************)
(* _convert_hexstring and _compile_files.                                  *)
(***************************************************************************)
\* The codecs taken for text as they would be without jer.
TextCodecs_NoJer == {s_gser, s_xer}

\* The codecs whose encode is called with indent=4 and whose output is
\* stripped and printed as text.
TextCodecs == {s_gser, s_xer, s_jer}

\* _convert_hexstring(input_spec, output_spec, output_codec, type_name,
\* hexstring), where dres and eres are what the decode and the encode call do
\* if they are made: the calls made, in order, and the exception raised
\* (NoExc when it returns).
ConvertHexstring(input_spec, output_spec, output_codec, type_name, hexstring, dres, eres) ==
    LET un == Unhexlify(hexstring)
        c1 == <<[op |-> "unhexlify", arg |-> hexstring, exc |-> un.exc]>>
        c2 == c1 \o <<[op |-> "decode", spec |-> input_spec,
                       type |-> type_name, data |-> un.data,
                       exc |-> dres.exc, value |-> dres.value]>>
        text == output_codec \in TextCodecs
        c3 == c2 \o <<[op |-> "encode", spec |-> output_spec,
                       type |-> type_name, value |-> dres.value,
                       indent |-> IF text THEN 4 ELSE 0,
                       exc |-> eres.exc, returned |-> eres.data]>>
        decoded == IF text THEN StripBytes(eres.data) ELSE Hexlify(eres.data)
    IN  IF un.exc # NoExc
        THEN [calls |-> c1,
              exc |-> Exc("TypeError",
                          <<"'">> \o hexstring \o <<"'", ":", " ">>
                          \o StrExc(un.exc))]
        ELSE IF dres.exc # NoExc
        THEN [calls |-> c2, exc |-> dres.exc]
        ELSE IF eres.exc # NoExc
        THEN [calls |-> c3, exc |-> eres.exc]
        ELSE [calls |-> c3 \o <<Stdout("_convert_hexstring",
                                       DecodeLatin1(decoded))>>,
              exc |-> NoExc]

\* _compile_files as it would be if it parsed the files anew for the output
\* codec.
CompileFiles_ParsesTwice(specifications, input_codec, output_codec) ==
    LET p == parse_files(specifications)
        c1 == <<[op |-> "parse_files", files |-> specifications,
                 exc |-> p.exc]>>
        i == compile_dict(p.parsed, input_codec)
        c2 == c1 \o <<[op |-> "compile_dict", codec |-> input_codec,
                       exc |-> i.exc]>>
        o == compile_dict(p.parsed, output_codec)
        c3 == c2 \o <<[op |-> "parse_files", files |-> specifications,
                       exc |-> p.exc],
                      [op |-> "compile_dict", codec |-> output_codec,
                       exc |-> o.exc]>>
    IN  IF p.exc # NoExc
        THEN [calls |-> c1, exc |-> p.exc, input_spec |-> None,
              output_spec |-> None]
        ELSE IF i.exc # NoExc
        THEN [calls |-> c2, exc |-> i.exc, input_spec |-> None,
              output_spec |-> None]
        ELSE IF o.exc # NoExc
        THEN [calls |-> c3, exc |-> o.exc, input_spec |-> None,
              output_spec |-> None]
        ELSE [calls |-> c3, exc |-> NoExc, input_spec |-> i.spec,
              output_spec |-> o.spec]

\* _compile_files(specifications, input_codec, output_codec)
CompileFiles(specifications, input_codec, output_codec) ==
    LET p == parse_files(specifications)
        c1 == <<[op |-> "parse_files", files |-> specifications,
                 exc |-> p.exc]>>
        i == compile_dict(p.parsed, input_codec)
        c2 == c1 \o <<[op |-> "compile_dict", codec |-> input_codec,
                       exc |-> i.exc]>>
        o == compile_dict(p.parsed, output_codec)
        c3 == c2 \o <<[op |-> "compile_dict", codec |-> output_codec,
                       exc |-> o.exc]>>
    IN  IF p.exc # NoExc
        THEN [calls |-> c1, exc |-> p.exc, input_spec |-> None,
              output_spec |-> None]
        ELSE IF i.exc # NoExc
        THEN [calls |-> c2, exc |-> i.exc, input_spec |-> None,
              output_spec |-> None]
        ELSE IF o.exc # NoExc
        THEN [calls |-> c3, exc |-> o.exc, input_spec |-> None,
              output_spec |-> None]
        ELSE [calls |-> c3, exc |-> NoExc, input_spec |-> i.spec,
              output_spec |-> o.spec]

(***************************************************************************)
(* Argument parsing (argparse, as the sources configure it).  The words    *)
(* are taken left to right.  Options are given as whole words (-i ber).  A *)
(* wrong value ends the parse at once; a word that is not recognized is    *)
(* set aside and reported when all words are taken.  The positional words  *)
(* of convert stand together.                                              *)
(***************************************************************************)
\* A word argparse takes for an option: it starts with - and is not - alone.
IsOptionWord(w) == Len(w) >= 2 /\ w[1] = "-"

\* The choices of -i of convert as they would be with gser among them.
ConvertInputChoices_WithGser ==
    {s_ber, s_der, s_jer, s_per, s_uper, s_xer, s_gser}

\* choices of -i/--input-codec of the convert subcommand.
ConvertInputChoices == {s_ber, s_der, s_jer, s_per, s_uper, s_xer}

\* choices of -o/--output-codec of the convert subcommand.
ConvertOutputChoices == {s_ber, s_der, s_jer, s_per, s_uper, s_xer, s_gser}

\* choices of -i/--input-codec of the shell's compile command.
CompileInputChoices == {s_ber, s_der, s_jer, s_per, s_uper, s_xer}

\* choices of -o/--output-codec of the shell's compile command.
CompileOutputChoices == {s_ber, s_der, s_jer, s_per, s_uper, s_xer, s_gser}

\* default of -i/--input-codec of the convert subcommand.
ConvertDefaultInput == s_ber

\* default of -o/--output-codec of the convert subcommand.
ConvertDefaultOutput == s_gser

\* default of -i/--input-codec of the shell's compile command.
CompileDefaultInput == s_ber

\* default of -o/--output-codec of the shell's compile command.
CompileDefaultOutput == s_gser

\* The namespace before any word is taken.
CodecNamespace(defaultInput, defaultOutput) ==
    [status |-> "ok", msg |-> <<>>, input_codec |-> defaultInput,
     output_codec |-> defaultOutput, positionals |-> <<>>, extras |-> <<>>]

\* parser.error(msg)
ArgError(ns, msg) == [ns EXCEPT !.status = "error", !.msg = msg]

RECURSIVE ParseCodecArgs(_, _, _, _, _)
\* parse_args of a parser with the options -i, -o (and -h) and positional
\* arguments: ns with the values taken, or status "error" (parser.error was
\* called with msg) or "help" (-h: help printed, parser.exit called).
\* phase is "before", "in" or "after" the positional words.
ParseCodecArgs(words, ns, phase, inChoices, outChoices) ==
    IF words = <<>> THEN ns
    ELSE LET w == Head(words)
             next == IF phase = "in" THEN "after" ELSE phase
             noValue == Len(words) < 2 \/ IsOptionWord(words[2])
         IN  IF w \in {o_i, o_input_codec}
             THEN IF noValue
                  THEN ArgError(ns, <<"expected one argument">>)
                  ELSE IF words[2] \notin inChoices
                  THEN ArgError(ns, <<"invalid choice: ">> \o words[2])
                  ELSE ParseCodecArgs(Tail(Tail(words)),
                                      [ns EXCEPT !.input_codec = words[2]],
                                      next, inChoices, outChoices)
             ELSE IF w \in {o_o, o_output_codec}
             THEN IF noValue
                  THEN ArgError(ns, <<"expected one argument">>)
                  ELSE IF words[2] \notin outChoices
                  THEN ArgError(ns, <<"invalid choice: ">> \o words[2])
                  ELSE ParseCodecArgs(Tail(Tail(words)),
                                      [ns EXCEPT !.output_codec = words[2]],
                                      next, inChoices, outChoices)
             ELSE IF w \in {o_h, o_help}
             THEN [ns EXCEPT !.status = "help"]
             ELSE IF IsOptionWord(w)
             THEN ParseCodecArgs(Tail(words),
                                 [ns EXCEPT !.extras = Append(@, w)],
                                 next, inChoices, outChoices)
             ELSE IF phase = "after"
             THEN ParseCodecArgs(Tail(words),
                                 [ns EXCEPT !.extras = Append(@, w)],
                                 phase, inChoices, outChoices)
             ELSE ParseCodecArgs(Tail(words),
                                 [ns EXCEPT !.positionals = Append(@, w)],
                                 "in", inChoices, outChoices)

\* The end of parse_args: the required arguments, then the words set aside.
EndOfArgs(ns, required) ==
    IF ns.status # "ok" THEN ns
    ELSE IF Len(ns.positionals) < required
    THEN ArgError(ns, <<"the following arguments are required">>)
    ELSE IF ns.extras # <<>>
    THEN ArgError(ns, <<"unrecognized arguments: ">> \o ns.extras[1])
    ELSE ns

\* The words of the convert subcommand: the options, then specification
\* (one or more), type and hexstring.
ParseConvertArgs(words) ==
    EndOfArgs(ParseCodecArgs(words,
                             CodecNamespace(ConvertDefaultInput,
                                            ConvertDefaultOutput),
                             "before",
                             ConvertInputChoices, ConvertOutputChoices),
              3)

\* The words of the shell's compile command: the options and specification
\* (one or more).
ParseCompileArgs(words) ==
    EndOfArgs(ParseCodecArgs(words,
                             CodecNamespace(CompileDefaultInput,
                                            CompileDefaultOutput),
                             "before",
                             CompileInputChoices, CompileOutputChoices),
              1)

\* The words of the shell's convert command: type and hexstring.
ParseShellConvertArgs(words) ==
    LET options == SelectSeq(words, IsOptionWord)
        positionals == SelectSeq(words, LAMBDA w : ~IsOptionWord(w))
        ns == [status |-> "ok", msg |-> <<>>, type |-> <<>>,
               hexstring |-> <<>>]
    IN  IF \E i \in 1..Len(words) : words[i] \in {o_h, o_help}
        THEN [ns EXCEPT !.status = "help"]
        ELSE IF Len(positionals) < 2
        THEN ArgError(ns, <<"the following arguments are required">>)
        ELSE IF Len(positionals) > 2
        THEN ArgError(ns, <<"unrecognized arguments: ">> \o positionals[3])
        ELSE IF options # <<>>
        THEN ArgError(ns, <<"unrecognized arguments: ">> \o options[1])
        ELSE [ns EXCEPT !.type = positionals[1],
                        !.hexstring = positionals[2]]

(***************************************************************************)
(* _main: the argument parser, the logging set-up and the end of the run.  *)
(***************************************************************************)
s_error_prefix == <<"e", "r", "r", "o", "r", ":", " ">>

s_prog == <<"a", "s", "n", "1", "t", "o", "o", "l", "s">>

\* __version__
s_version == <<"0", ".", "8", "0", ".", "1">>

\* logging.CRITICAL, logging.WARNING and logging.DEBUG
CRITICAL == 50

WARNING == 30

DEBUG == 10

\* levels, indexed from 1
Levels == <<CRITICAL, WARNING, DEBUG>>

\* choices of -v/--verbose
VerboseChoices == {0, 1, 2}

DefaultVerbose == 1

\* The severities of the logging module: DEBUG, INFO, WARNING, ERROR and
\* CRITICAL.
Severities == {10, 20, 30, 40, 50}

\* Logger.isEnabledFor: the root logger that basicConfig(level=level) has
\* set up emits a record if its severity is at least the level.
IsEnabledFor(severity, level) == severity >= level

IsDecimal(w) ==
    /\ Len(w) >= 1
    /\ \A i \in 1..Len(w) : \E d \in 1..10 : HexDigits[d] = w[i]

RECURSIVE DecimalValue(_)
\* int(w) of a word of decimal digits
DecimalValue(w) ==
    IF w = <<>> THEN 0
    ELSE 10 * DecimalValue(SubSeq(w, 1, Len(w) - 1)) + HexValue(w[Len(w)])

\* The namespace before any word is taken.
MainDefaults ==
    [status |-> "ok", msg |-> <<>>, prog |-> s_prog, debug |-> FALSE,
     verbose |-> DefaultVerbose, subcommand |-> <<>>, input_codec |-> <<>>,
     output_codec |-> <<>>, specification |-> <<>>, type |-> <<>>,
     hexstring |-> <<>>]

RECURSIVE ParseMainArgs(_, _)
\* parser.parse_args() on the words after the program name: the namespace,
\* or status "error" (parser.error: usage and message on stderr, exit status
\* 2), "version" or "help" (text on stdout, exit status 0).  prog is the
\* parser that reports the error: the subparser of convert for its own
\* arguments, the main parser for everything else, the words that no parser
\* recognized included.
ParseMainArgs(words, ns) ==
    IF words = <<>>
    THEN ArgError(ns, <<"the following arguments are required: subcommand">>)
    ELSE LET w == Head(words)
             noValue == Len(words) < 2 \/ IsOptionWord(words[2])
         IN  IF w \in {o_d, o_debug}
             THEN ParseMainArgs(Tail(words), [ns EXCEPT !.debug = TRUE])
             ELSE IF w \in {o_v, o_verbose}
             THEN IF noValue
                  THEN ArgError(ns, <<"expected one argument">>)
                  ELSE IF ~IsDecimal(words[2])
                  THEN ArgError(ns, <<"invalid int value: ">> \o words[2])
                  ELSE IF DecimalValue(words[2]) \notin VerboseChoices
                  THEN ArgError(ns, <<"invalid choice: ">> \o words[2])
                  ELSE ParseMainArgs(Tail(Tail(words)),
                           [ns EXCEPT !.verbose = DecimalValue(words[2])])
             ELSE IF w = o_version
             THEN [ns EXCEPT !.status = "version"]
             ELSE IF w \in {o_h, o_help}
             THEN [ns EXCEPT !.status = "help"]
             ELSE IF IsOptionWord(w)
             THEN ArgError(ns, <<"unrecognized arguments: ">> \o w)
             ELSE IF w = s_convert
             THEN LET c == ParseConvertArgs(Tail(words))
                      n == Len(c.positionals)
                  IN  IF c.status # "ok"
                      THEN [ns EXCEPT
                              !.status = c.status, !.msg = c.msg,
                              !.prog =
                                  IF c.status = "error"
                                     /\ c.msg[1] # "unrecognized arguments: "
                                  THEN s_prog \o <<" ">> \o s_convert
                                  ELSE s_prog]
                      ELSE [ns EXCEPT !.subcommand = s_convert,
                                      !.input_codec = c.input_codec,
                                      !.output_codec = c.output_codec,
                                      !.specification =
                                          SubSeq(c.positionals, 1, n - 2),
                                      !.type = c.positionals[n - 1],
                                      !.hexstring = c.positionals[n]]
             ELSE IF w = s_shell
             THEN IF Tail(words) = <<>>
                  THEN [ns EXCEPT !.subcommand = s_shell]
                  ELSE IF words[2] \in {o_h, o_help}
                  THEN [ns EXCEPT !.status = "help"]
                  ELSE ArgError(ns, <<"unrecognized arguments: ">> \o words[2])
             ELSE ArgError(ns, <<"invalid choice: ">> \o w)

\* The end of _main as it would be with `sys.exit(str(e))`.
MainEnd_NoPrefix(debug, exc) ==
    IF exc = NoExc
    THEN [kind |-> "returned", code |-> 0, err |-> <<>>]
    ELSE IF debug
    THEN [kind |-> "raised", code |-> 1,
          err |-> << <<"Traceback (most recent call last):">>,
                     <<exc.type, ":", " ">> \o StrExc(exc) >>]
    ELSE [kind |-> "SystemExit", code |-> 1, err |-> << StrExc(exc) >>]

\* The end of _main as it would be if args.debug were not looked at.
MainEnd_IgnoresDebug(debug, exc) ==
    IF exc = NoExc
    THEN [kind |-> "returned", code |-> 0, err |-> <<>>]
    ELSE [kind |-> "SystemExit", code |-> 1,
          err |-> << s_error_prefix \o StrExc(exc) >>]

\* How _main ends once args.func(args) has returned (exc = NoExc) or raised
\* exc: the way the call of _main ends, the exit status of the process and
\* the lines written to stderr.  An exception that leaves _main is reported
\* by the interpreter with a traceback and exit status 1; sys.exit(message)
\* writes the message and gives exit status 1.
MainEnd(debug, exc) ==
    IF exc = NoExc
    THEN [kind |-> "returned", code |-> 0, err |-> <<>>]
    ELSE IF debug
    THEN [kind |-> "raised", code |-> 1,
          err |-> << <<"Traceback (most recent call last):">>,
                     <<exc.type, ":", " ">> \o StrExc(exc) >>]
    ELSE [kind |-> "SystemExit", code |-> 1,
          err |-> << s_error_prefix \o StrExc(exc) >>]

(***************************************************************************)
(* The body of the loop of _do_convert over the lines of standard input.   *)
(***************************************************************************)
\* The turn of the loop as it would be if `print(str(e))` were left out of
\* the handler of DecodeError.
ConvertStdinLine_NoDiagnostic(input_spec, output_spec, output_codec, type_name, raw, dres, eres) ==
    LET hexstring == Strip(raw, CRLF)
        r == ConvertHexstring(input_spec, output_spec, output_codec,
                              type_name, hexstring, dres, eres)
    IN  IF hexstring # <<>>
        THEN IF r.exc.type \in {"TypeError", "DecodeError"}
             THEN [calls |-> r.calls \o <<Stdout("_do_convert", hexstring)>>,
                   exc |-> NoExc]
             ELSE [calls |-> r.calls, exc |-> r.exc]
        ELSE [calls |-> <<Stdout("_do_convert", hexstring)>>, exc |-> NoExc]

\* One turn of `for hexstring in sys.stdin` on the line raw: the calls made
\* and the lines printed, and the exception that leaves the loop (NoExc when
\* the loop goes on).
ConvertStdinLine(input_spec, output_spec, output_codec, type_name, raw, dres, eres) ==
    LET hexstring == Strip(raw, CRLF)
        r == ConvertHexstring(input_spec, output_spec, output_codec,
                              type_name, hexstring, dres, eres)
    IN  IF hexstring # <<>>
        THEN IF r.exc.type = "TypeError"
             THEN [calls |-> r.calls \o <<Stdout("_do_convert", hexstring)>>,
                   exc |-> NoExc]
             ELSE IF r.exc.type = "DecodeError"
             THEN [calls |-> r.calls
                             \o <<Stdout("_do_convert", hexstring),
                                  Stdout("_do_convert", StrExc(r.exc))>>,
                   exc |-> NoExc]
             ELSE [calls |-> r.calls, exc |-> r.exc]
        ELSE [calls |-> <<Stdout("_do_convert", hexstring)>>, exc |-> NoExc]

(***************************************************************************)
(* The shell.                                                              *)
(***************************************************************************)
\* `not input_spec`
IsFalse(spec) == spec = None

\* What _handle_command_compile returns when it fails.
NoSpecs ==
    [input_spec |-> None, output_spec |-> None, output_codec |-> NoCodec]

\* _handle_command_compile(line): the calls made and the lines printed, and
\* the input specification, output specification and output codec returned.
HandleCommandCompile(line) ==
    LET ns == ParseCompileArgs(Rest(Split(line)))
        cf == CompileFiles(ns.positionals, ns.input_codec, ns.output_codec)
        print(text) == Stdout("_handle_command_compile", text)
    IN  IF ns.status = "error"
        THEN [calls |-> <<print(<<"usage: compile">>),
                          print(<<"compile: error: ">> \o ns.msg)>>,
              specs |-> NoSpecs]
        ELSE IF ns.status = "help"
        THEN [calls |-> <<print(<<"usage: compile", "help">>)>>,
              specs |-> NoSpecs]
        ELSE IF cf.exc # NoExc
        THEN [calls |-> cf.calls
                        \o <<print(s_error_prefix \o StrExc(cf.exc))>>,
              specs |-> NoSpecs]
        ELSE [calls |-> cf.calls,
              specs |-> [input_spec |-> cf.input_spec,
                         output_spec |-> cf.output_spec,
                         output_codec |-> ns.output_codec]]

\* _handle_command_convert(line, input_spec, output_spec, output_codec): the
\* calls made and the lines printed.
HandleCommandConvert(line, input_spec, output_spec, output_codec, dres, eres) ==
    LET ns == ParseShellConvertArgs(Rest(Split(line)))
        r == ConvertHexstring(input_spec, output_spec, output_codec,
                              ns.type, ns.hexstring, dres, eres)
        print(text) == Stdout("_handle_command_convert", text)
    IN  IF IsFalse(input_spec)
        THEN <<print(<<"No compiled specification found. Please use the ",
                       "'compile' command to compile one.">>)>>
        ELSE IF ns.status = "error"
        THEN <<print(<<"usage: convert">>),
               print(<<"convert: error: ">> \o ns.msg)>>
        ELSE IF ns.status = "help"
        THEN <<print(<<"usage: convert", "help">>)>>
        ELSE IF r.exc # NoExc
        THEN r.calls \o <<print(s_error_prefix \o StrExc(r.exc))>>
        ELSE r.calls

\* _handle_command_help()
HandleCommandHelp ==
    LET print(text) == Stdout("_handle_command_help", text)
    IN  <<print(<<"Commands:">>), print(<<"  compile">>),
          print(<<"  convert">>), print(<<"  exit">>), print(<<"  help">>)>>

\* The turn of the shell as it would be if a failed compile command left the
\* specifications of an earlier one in place.
ShellCommand_KeepsSpecs(raw, input_spec, output_spec, output_codec, dres, eres) ==
    LET line == Strip(raw, Whitespace)
        same == [input_spec |-> input_spec, output_spec |-> output_spec,
                 output_codec |-> output_codec]
    IN  IF line = <<>>
        THEN [calls |-> <<>>, specs |-> same, return |-> FALSE]
        ELSE IF StartsWith(line, s_compile)
        THEN LET c == HandleCommandCompile(line)
             IN  [calls |-> c.calls,
                  specs |-> IF c.specs = NoSpecs THEN same ELSE c.specs,
                  return |-> FALSE]
        ELSE IF StartsWith(line, s_convert)
        THEN [calls |-> HandleCommandConvert(line, input_spec, output_spec,
                                             output_codec, dres, eres),
              specs |-> same, return |-> FALSE]
        ELSE IF line = s_help
        THEN [calls |-> HandleCommandHelp, specs |-> same, return |-> FALSE]
        ELSE IF line = s_exit
        THEN [calls |-> <<>>, specs |-> same, return |-> TRUE]
        ELSE [calls |-> <<Stdout("_do_shell",
                                 line \o <<": command not found">>)>>,
              specs |-> same, return |-> FALSE]

\* The turn of the shell as it would be if _handle_command_convert let the
\* error of a conversion leave the loop after reporting it.
ShellCommand_ConvertErrorReturns(raw, input_spec, output_spec, output_codec, dres, eres) ==
    LET line == Strip(raw, Whitespace)
        same == [input_spec |-> input_spec, output_spec |-> output_spec,
                 output_codec |-> output_codec]
        c == HandleCommandConvert(line, input_spec, output_spec,
                                  output_codec, dres, eres)
    IN  IF line = <<>>
        THEN [calls |-> <<>>, specs |-> same, return |-> FALSE]
        ELSE IF StartsWith(line, s_compile)
        THEN [calls |-> HandleCommandCompile(line).calls,
              specs |-> HandleCommandCompile(line).specs, return |-> FALSE]
        ELSE IF StartsWith(line, s_convert)
        THEN [calls |-> c, specs |-> same,
              return |-> \E k \in 1..Len(c) :
                             /\ c[k].op = "print"
                             /\ StartsWith(c[k].text, s_error_prefix)]
        ELSE IF line = s_help
        THEN [calls |-> HandleCommandHelp, specs |-> same, return |-> FALSE]
        ELSE IF line = s_exit
        THEN [calls |-> <<>>, specs |-> same, return |-> TRUE]
        ELSE [calls |-> <<Stdout("_do_shell",
                                 line \o <<": command not found">>)>>,
              specs |-> same, return |-> FALSE]

\* The turn of the shell as it would be if `help` were looked for with
\* startswith, as `compile` and `convert` are.
ShellCommand_HelpByPrefix(raw, input_spec, output_spec, output_codec, dres, eres) ==
    LET line == Strip(raw, Whitespace)
        same == [input_spec |-> input_spec, output_spec |-> output_spec,
                 output_codec |-> output_codec]
    IN  IF line = <<>>
        THEN [calls |-> <<>>, specs |-> same, return |-> FALSE]
        ELSE IF StartsWith(line, s_compile)
        THEN [calls |-> HandleCommandCompile(line).calls,
              specs |-> HandleCommandCompile(line).specs, return |-> FALSE]
        ELSE IF StartsWith(line, s_convert)
        THEN [calls |-> HandleCommandConvert(line, input_spec, output_spec,
                                             output_codec, dres, eres),
              specs |-> same, return |-> FALSE]
        ELSE IF StartsWith(line, s_help)
        THEN [calls |-> HandleCommandHelp, specs |-> same, return |-> FALSE]
        ELSE IF line = s_exit
        THEN [calls |-> <<>>, specs |-> same, return |-> TRUE]
        ELSE [calls |-> <<Stdout("_do_shell",
                                 line \o <<": command not found">>)>>,
              specs |-> same, return |-> FALSE]

\* One turn of the loop of _do_shell on the line raw the prompt returned: the
\* calls made and the lines printed, the specifications and output codec
\* after it, and whether _do_shell returns.
ShellCommand(raw, input_spec, output_spec, output_codec, dres, eres) ==
    LET line == Strip(raw, Whitespace)
        same == [input_spec |-> input_spec, output_spec |-> output_spec,
                 output_codec |-> output_codec]
    IN  IF line = <<>>
        THEN [calls |-> <<>>, specs |-> same, return |-> FALSE]
        ELSE IF StartsWith(line, s_compile)
        THEN LET c == HandleCommandCompile(line)
             IN  [calls |-> c.calls, specs |-> c.specs, return |-> FALSE]
        ELSE IF StartsWith(line, s_convert)
        THEN [calls |-> HandleCommandConvert(line, input_spec, output_spec,
                                             output_codec, dres, eres),
              specs |-> same, return |-> FALSE]
        ELSE IF line = s_help
        THEN [calls |-> HandleCommandHelp, specs |-> same, return |-> FALSE]
        ELSE IF line = s_exit
        THEN [calls |-> <<>>, specs |-> same, return |-> TRUE]
        ELSE [calls |-> <<Stdout("_do_shell",
                                 line \o <<": command not found">>)>>,
              specs |-> same, return |-> FALSE]

(***************************************************************************)
(* Inputs: command lines, lines of standard input and lines typed at the   *)
(* shell prompt.                                                           *)
(***************************************************************************)
s_frob == <<"f", "r", "o", "b">>

h_bool == <<"0", "1", "0", "1", "f", "f">>

h_nonhex == <<"z", "z">>

l_empty == <<"\n">>

l_bool == <<"0", "1", "0", "1", "f", "f", "\n">>

l_crlf == <<"0", "1", "0", "1", "\r", "\n">>

l_nonhex == <<"z", "z", "\n">>

l_odd == <<"0", "1", "2", "\n">>

\* The lines standard input can hold.
StdinLines == {l_empty, l_bool, l_crlf, l_nonhex, l_odd}

c_empty == <<>>

c_blank == <<" ", " ">>

c_help == <<" ", "h", "e", "l", "p", " ">>

c_exit == <<"e", "x", "i", "t">>

c_unknown == <<"f", "o", "o">>

c_compile == <<"c", "o", "m", "p", "i", "l", "e", " ", "g">>

c_compile_syntax == <<"c", "o", "m", "p", "i", "l", "e", " ", "p">>

c_compile_semantic == <<"c", "o", "m", "p", "i", "l", "e", " ", "c">>

c_compile_noargs == <<"c", "o", "m", "p", "i", "l", "e">>

c_compile_prefix ==
    <<"c", "o", "m", "p", "i", "l", "e", "x", "y", "z", " ", "-", "i", " ",
      "u", "p", "e", "r", " ", "-", "o", " ", "j", "e", "r", " ", "g">>

c_convert ==
    <<"c", "o", "n", "v", "e", "r", "t", " ", "T", " ",
      "0", "1", "0", "1", "f", "f">>

c_convert_nonhex ==
    <<"c", "o", "n", "v", "e", "r", "t", " ", "T", " ", "z", "z">>

c_convert_noargs == <<"c", "o", "n", "v", "e", "r", "t", " ", "T">>

c_help_prefix == <<"h", "e", "l", "p", "x">>

c_exit_prefix == <<"e", "x", "i", "t", " ", "n", "o", "w">>

\* The lines typed at the prompt.
BaseShellLines ==
    { c_empty, c_blank, c_help, c_exit, c_unknown, c_compile,
      c_compile_syntax, c_compile_semantic, c_compile_noargs,
      c_compile_prefix, c_convert, c_convert_nonhex, c_convert_noargs,
      c_help_prefix, c_exit_prefix }

\* The codec names tried on the command line: the seven of the package and
\* one that is none of them.
CodecWords == {s_ber, s_der, s_jer, s_per, s_uper, s_xer, s_gser, s_zip}

\* compile with every choice of -i and with every choice of -o.
CodecShellLines ==
    {s_compile \o <<" ">> \o o_i \o <<" ">> \o c \o <<" ">> \o f_good :
        c \in CodecWords}
    \cup {s_compile \o <<" ">> \o o_o \o <<" ">> \o c \o <<" ">> \o f_good :
        c \in CodecWords}

\* The lines the n+1-th prompt can return: the first command also ranges
\* over every codec name.
ShellLines(n) ==
    IF n = 0 THEN BaseShellLines \cup CodecShellLines ELSE BaseShellLines

InputOptions == {<<>>} \cup {<<o_i, c>> : c \in CodecWords}

OutputOptions == {<<>>} \cup {<<o_o, c>> : c \in CodecWords}

\* convert with every choice of -i and -o, on one hexstring.
CodecArgvs ==
    {<<s_convert>> \o i \o o \o <<f_good, s_T, h_bool>> :
        i \in InputOptions, o \in OutputOptions}

\* The subcommands run with and without --debug.
Subcommands ==
    { <<s_convert, f_syntax, s_T, h_bool>>,
      <<s_convert, f_good, f_semantic, s_T, h_bool>>,
      <<s_convert, f_good, s_T, h_nonhex>>,
      <<s_convert, f_good, s_T>>,
      <<s_convert, f_good, s_T, s_dash>>,
      <<s_convert, o_o, s_ber, f_good, s_T, s_dash>>,
      <<s_convert, o_input_codec, s_uper, o_output_codec, s_jer,
        f_good, s_T, s_dash>>,
      <<s_frob>>,
      <<>> }

GlobalOptions == { <<>>, <<o_d>> }

\* Other command lines.
OtherArgvs ==
    { <<s_shell>>, <<o_version>>, <<o_h>>, <<o_v, s_3, s_shell>>,
      <<o_v, s_zip, s_shell>>, <<o_v>>, <<s_shell, s_frob>>,
      <<s_convert, o_d, f_good, s_T, h_bool>>,
      <<o_v, s_0, s_convert, f_good, s_T, h_bool>>,
      <<o_v, s_1, s_convert, f_good, s_T, h_bool>>,
      <<o_verbose, s_2, s_convert, f_good, s_T, h_bool>>,
      <<o_debug, s_convert, f_good, s_T, h_nonhex>> }

\* sys.argv[1:]
Argvs ==
    CodecArgvs
    \cup {g \o s : g \in GlobalOptions, s \in Subcommands}
    \cup OtherArgvs

\* The outcomes to choose from for a decode or encode call that is made
\* (made = TRUE) or not made.
DecodeChoices(made) == IF made THEN DecodeOutcomes ELSE {NotDecoded}

EncodeChoices(made) == IF made THEN EncodeOutcomes ELSE {NotEncoded}

(***************************************************************************)
(* State.                                                                  *)
(***************************************************************************)
VARIABLES
    pc,            \* where the run is: "start", "convert" (in the loop over
                   \* stdin), "shell" (at the prompt) or "done"
    argv,          \* sys.argv[1:]
    args,          \* the namespace parse_args returned
    level,         \* the level of the root logger
    input_spec,    \* the compiled input specification, or None
    output_spec,   \* the compiled output specification, or None
    output_codec,  \* the shell's output codec, or NoCodec
    nread,         \* the number of lines read from stdin or the prompt
    calls,         \* the record of the run, a turn after a turn: the start
                   \* of _main, then every line read from stdin or the
                   \* prompt, each with the calls made to the parser, the
                   \* compiler and the codecs and the lines printed, in
                   \* order, until the next line is read
    stderr,        \* the lines written to standard error
    func_exc,      \* the exception args.func(args) raised, or NoExc
    result,        \* how _main ended: kind is "running", "returned",
                   \* "SystemExit" or "raised"; code is the exit status
    bench_pc,      \* examples/benchmarks/codecs.py: the statement the script
                   \* is at
    bench_calls,   \* the calls the script has made to the package, in order
    bench_times,   \* the seconds measured so far, codec by codec
    bench_stdout,  \* the lines the script has printed
    per_pc,        \* the (U)PER codec: "compiled", "encoded" or "decoded"
    per_type,      \* the compiled type
    per_aligned,   \* TRUE for aligned PER, FALSE for UPER
    per_value,     \* the value given to encode
    per_encoded,   \* what encode returned: the bits written and the octets
    per_decoded    \* what decode returned for those octets

\* The state of the command line interface, of the benchmark script and of
\* the (U)PER codec: three programs, each run on its own.
cliVars == <<pc, argv, args, level, input_spec, output_spec, output_codec,
             nread, calls, stderr, func_exc, result>>

benchVars == <<bench_pc, bench_calls, bench_times, bench_stdout>>

perVars == <<per_pc, per_type, per_aligned, per_value, per_encoded,
             per_decoded>>

others == <<benchVars, perVars>>

vars == <<cliVars, benchVars, perVars>>

\* The benchmark script is not running.
BenchIdle ==
    /\ bench_pc = "idle"
    /\ bench_calls = <<>>
    /\ bench_times = <<>>
    /\ bench_stdout = <<>>

\* No type is compiled for the (U)PER codec.
PerIdle ==
    /\ per_pc = "idle"
    /\ per_type = <<>>
    /\ per_aligned = FALSE
    /\ per_value = <<>>
    /\ per_encoded = <<>>
    /\ per_decoded = <<>>

Running == [kind |-> "running", code |-> 0]

\* A turn of the record: what was read (op is "main" for the start of _main,
\* "readline" for a line of stdin, "prompt" for a line typed at the prompt)
\* and what was done with it.
TurnRecord(op, line, did) == [op |-> op, line |-> line, did |-> did]

\* The command line interface is not running.
CliIdle ==
    /\ pc = "idle"
    /\ argv = <<>>
    /\ args = MainDefaults
    /\ level = WARNING
    /\ input_spec = None
    /\ output_spec = None
    /\ output_codec = NoCodec
    /\ nread = 0
    /\ calls = <<>>
    /\ stderr = <<>>
    /\ func_exc = NoExc
    /\ result = Running

Init ==
    /\ pc = "start"
    /\ argv \in Argvs
    /\ args = MainDefaults
    /\ level = WARNING
    /\ input_spec = None
    /\ output_spec = None
    /\ output_codec = NoCodec
    /\ nread = 0
    /\ calls = <<>>
    /\ stderr = <<>>
    /\ func_exc = NoExc
    /\ result = Running
    /\ BenchIdle
    /\ PerIdle

\* args.func(args) has ended with exc (NoExc: it returned): _main ends.
Finish(debug, exc) ==
    LET e == MainEnd(debug, exc)
    IN  /\ pc' = "done"
        /\ func_exc' = exc
        /\ result' = [kind |-> e.kind, code |-> e.code]
        /\ stderr' = stderr \o e.err

\* parse_args ends the run: an argument error.
MainArgumentError ==
    LET ns == ParseMainArgs(argv, MainDefaults)
    IN  /\ pc = "start"
        /\ ns.status = "error"
        /\ pc' = "done"
        /\ stderr' = << <<"usage: ">> \o ns.prog,
                        ns.prog \o <<":", " ">> \o s_error_prefix \o ns.msg >>
        /\ result' = [kind |-> "SystemExit", code |-> 2]
        /\ UNCHANGED <<others, argv, args, level, input_spec, output_spec,
                       output_codec, nread, calls, func_exc>>

\* parse_args ends the run: --version or -h.
MainVersionOrHelp ==
    LET ns == ParseMainArgs(argv, MainDefaults)
    IN  /\ pc = "start"
        /\ ns.status \in {"version", "help"}
        /\ pc' = "done"
        /\ calls' = << TurnRecord("main", <<>>,
                        IF ns.status = "version"
                        THEN <<Stdout("argparse", s_version)>>
                        ELSE <<Stdout("argparse",
                                      <<"usage: ">> \o s_prog
                                      \o <<"help">>)>>) >>
        /\ result' = [kind |-> "SystemExit", code |-> 0]
        /\ UNCHANGED <<others, argv, args, level, input_spec, output_spec,
                       output_codec, nread, stderr, func_exc>>

\* _main with the convert subcommand: _compile_files fails, or it succeeds
\* and _do_convert converts the one hexstring; then _main ends.
MainConvertOne ==
    LET ns == ParseMainArgs(argv, MainDefaults)
        cf == CompileFiles(ns.specification, ns.input_codec, ns.output_codec)
        Convert(dres, eres) ==
            ConvertHexstring(cf.input_spec, cf.output_spec, ns.output_codec,
                             ns.type, ns.hexstring, dres, eres)
    IN  /\ pc = "start"
        /\ ns.status = "ok"
        /\ ns.subcommand = s_convert
        /\ cf.exc # NoExc \/ ns.hexstring # s_dash
        /\ args' = ns
        /\ level' = Levels[ns.verbose + 1]
        /\ IF cf.exc # NoExc
           THEN /\ calls' = << TurnRecord("main", <<>>, cf.calls) >>
                /\ Finish(ns.debug, cf.exc)
           ELSE \E dres \in DecodeChoices(
                        Reaches(Convert(NotDecoded, NotEncoded).calls,
                                "decode")) :
                \E eres \in EncodeChoices(
                        Reaches(Convert(dres, NotEncoded).calls, "encode")) :
                    /\ calls' = << TurnRecord("main", <<>>,
                                    cf.calls \o Convert(dres, eres).calls) >>
                    /\ Finish(ns.debug, Convert(dres, eres).exc)
        /\ UNCHANGED <<others, argv, input_spec, output_spec, output_codec, nread>>

\* _main with the convert subcommand and hexstring `-`: _do_convert compiles
\* and waits for the first line of standard input.
MainConvertStdin ==
    LET ns == ParseMainArgs(argv, MainDefaults)
        cf == CompileFiles(ns.specification, ns.input_codec, ns.output_codec)
    IN  /\ pc = "start"
        /\ ns.status = "ok"
        /\ ns.subcommand = s_convert
        /\ cf.exc = NoExc
        /\ ns.hexstring = s_dash
        /\ pc' = "convert"
        /\ args' = ns
        /\ level' = Levels[ns.verbose + 1]
        /\ calls' = << TurnRecord("main", <<>>, cf.calls) >>
        /\ input_spec' = cf.input_spec
        /\ output_spec' = cf.output_spec
        /\ UNCHANGED <<others, argv, output_codec, nread, stderr, func_exc, result>>

\* The loop of _do_convert reads the next line of standard input.
ConvertLine ==
    /\ pc = "convert"
    /\ nread < MaxLines
    /\ \E raw \in StdinLines :
          LET Turn(dres, eres) ==
                  ConvertStdinLine(input_spec, output_spec, args.output_codec,
                                   args.type, raw, dres, eres)
          IN  \E dres \in DecodeChoices(
                      Reaches(Turn(NotDecoded, NotEncoded).calls, "decode")) :
              \E eres \in EncodeChoices(
                      Reaches(Turn(dres, NotEncoded).calls, "encode")) :
                  /\ nread' = nread + 1
                  /\ calls' = Append(calls,
                                      TurnRecord("readline", raw,
                                                 Turn(dres, eres).calls))
                  /\ IF Turn(dres, eres).exc = NoExc
                     THEN UNCHANGED <<pc, stderr, func_exc, result>>
                     ELSE Finish(args.debug, Turn(dres, eres).exc)
    /\ UNCHANGED <<others, argv, args, level, input_spec, output_spec, output_codec>>

\* Standard input ends: the loop ends, _do_convert returns and _main ends.
ConvertEOF ==
    /\ pc = "convert"
    /\ Finish(args.debug, NoExc)
    /\ UNCHANGED <<others, argv, args, level, input_spec, output_spec, output_codec,
                   nread, calls>>

\* _main with the shell subcommand: _do_shell greets and prompts.
MainShell ==
    LET ns == ParseMainArgs(argv, MainDefaults)
    IN  /\ pc = "start"
        /\ ns.status = "ok"
        /\ ns.subcommand = s_shell
        /\ pc' = "shell"
        /\ args' = ns
        /\ level' = Levels[ns.verbose + 1]
        /\ calls' = << TurnRecord("main", <<>>,
                        <<Stdout("_do_shell",
                                 <<"\n", "Welcome to the asn1tools shell!",
                                   "\n">>)>>) >>
        /\ input_spec' = None
        /\ output_spec' = None
        /\ output_codec' = NoCodec
        /\ UNCHANGED <<others, argv, nread, stderr, func_exc, result>>

\* The prompt returns a line and the loop of _do_shell handles it.
ShellLine ==
    /\ pc = "shell"
    /\ nread < MaxCmds
    /\ \E raw \in ShellLines(nread) :
          LET Turn(dres, eres) ==
                  ShellCommand(raw, input_spec, output_spec, output_codec,
                               dres, eres)
          IN  \E dres \in DecodeChoices(
                      Reaches(Turn(NotDecoded, NotEncoded).calls, "decode")) :
              \E eres \in EncodeChoices(
                      Reaches(Turn(dres, NotEncoded).calls, "encode")) :
                  /\ nread' = nread + 1
                  /\ calls' = Append(calls,
                                      TurnRecord("prompt", raw,
                                                 Turn(dres, eres).calls))
                  /\ input_spec' = Turn(dres, eres).specs.input_spec
                  /\ output_spec' = Turn(dres, eres).specs.output_spec
                  /\ output_codec' = Turn(dres, eres).specs.output_codec
                  /\ IF Turn(dres, eres).return
                     THEN Finish(args.debug, NoExc)
                     ELSE UNCHANGED <<pc, stderr, func_exc, result>>
    /\ UNCHANGED <<others, argv, args, level>>

\* The prompt raises EOFError: _do_shell returns and _main ends.
ShellEOF ==
    /\ pc = "shell"
    /\ Finish(args.debug, NoExc)
    /\ UNCHANGED <<others, argv, args, level, input_spec, output_spec, output_codec,
                   nread, calls>>

Next ==
    \/ MainArgumentError
    \/ MainVersionOrHelp
    \/ MainConvertOne
    \/ MainConvertStdin
    \/ ConvertLine
    \/ ConvertEOF
    \/ MainShell
    \/ ShellLine
    \/ ShellEOF

Spec == Init /\ [][Next]_vars

(***************************************************************************)
(* Reading the record of a run.                                            *)
(***************************************************************************)
\* The turns of the loop over stdin, and the turns of the shell.
StdinTurns == {i \in 1..Len(calls) : calls[i].op = "readline"}

ShellTurns == {i \in 1..Len(calls) : calls[i].op = "prompt"}

\* What turn i did after reading its line.
TurnOf(i) == calls[i].did

RECURSIVE Printed(_)
\* The lines t writes to standard output, in order.
Printed(t) ==
    IF t = <<>> THEN <<>>
    ELSE IF Head(t).op = "print"
    THEN <<Head(t).text>> \o Printed(Tail(t))
    ELSE Printed(Tail(t))

\* Whether turn i is the last one of the record.
IsLastTurn(i) == i = Len(calls)

\* The places of turn i where op was called.
CallsOf(i, ops) == {k \in 1..Len(TurnOf(i)) : TurnOf(i)[k].op \in ops}

\* The places of turn i where one of ops was called and raised.
RaisedIn(i, ops) == {k \in CallsOf(i, ops) : TurnOf(i)[k].exc # NoExc}

\* A line of stderr that starts with `error:`.
HasErrorLine ==
    \E k \in 1..Len(stderr) :
        StartsWith(stderr[k], <<"e", "r", "r", "o", "r", ":">>)

\* -d or --debug is on the command line.
DebugGiven == \E k \in 1..Len(argv) : argv[k] \in {o_d, o_debug}

\* parse_args rejected the command line.
ArgumentError == ParseMainArgs(argv, MainDefaults).status = "error"

(***************************************************************************)
(* C1.  convert with hexstring `-`: a line whose decode fails is echoed,   *)
(* the diagnostic follows, and nothing else is printed for it.             *)
(***************************************************************************)
\* The turns of the loop over stdin whose decode call raised.
DecodeFailedTurns == {i \in StdinTurns : RaisedIn(i, {"decode"}) # {}}

\* C1: for every line of stdin whose decode fails, the output of that line
\* is the line (without its line end), then the message of the DecodeError,
\* and no converted value.
C1_FailedDecodeEchoed ==
    \A i \in DecodeFailedTurns :
        LET t == TurnOf(i)
            d == CHOOSE k \in 1..Len(t) : t[k].op = "decode"
        IN  /\ Printed(t)
                 = <<Strip(calls[i].line, {"\r", "\n"}), t[d].exc.msg>>
            /\ t[d].exc.type = "DecodeError"
            /\ \A k \in 1..Len(t) :
                  t[k].op = "print" => t[k].by # "_convert_hexstring"

C1_Witness == DecodeFailedTurns # {}

(***************************************************************************)
(* C2.  convert with hexstring `-`: an EncodeError or DecodeError of one   *)
(* line does not keep the remaining lines from being read.                 *)
(***************************************************************************)
\* The turns of the loop over stdin whose decode or encode call raised.
CodecFailedTurns ==
    {i \in StdinTurns : RaisedIn(i, {"decode", "encode"}) # {}}

\* C2: after a line whose conversion raises an EncodeError or a DecodeError
\* the loop goes on to the remaining lines: the run does not end with that
\* line, it ends when stdin ends.
C2_CodecErrorsRecoverable ==
    \A i \in CodecFailedTurns :
        (pc = "done" /\ IsLastTurn(i)) => func_exc = NoExc

(***************************************************************************)
(* C3.  The exit status of a run of _main.                                 *)
(***************************************************************************)
\* C3 as claimed: exit status 0 when the subcommand succeeds, exit status 1
\* and a line prefixed `error:` on stderr on any error, argument errors and
\* errors raised with --debug included.
C3_ExitOneOnAnyError ==
    pc = "done" =>
        /\ (args.subcommand # <<>> /\ func_exc = NoExc) => result.code = 0
        /\ (ArgumentError \/ func_exc # NoExc) =>
              (result.code = 1 /\ HasErrorLine)

\* C3 as amended: exit status 0 when the subcommand succeeds; exit status 1
\* and a line prefixed `error:` on stderr when the subcommand raises and
\* --debug is not set; with --debug the exception leaves _main and no
\* `error:` line is written; an argument error ends the run with exit
\* status 2 and a usage message, no line of which starts with `error:`.
C3_ExitStatus ==
    pc = "done" =>
        /\ (args.subcommand # <<>> /\ func_exc = NoExc) =>
              (result.code = 0 /\ stderr = <<>>)
        /\ (func_exc # NoExc /\ ~DebugGiven) =>
              (result.code = 1 /\ HasErrorLine)
        /\ (func_exc # NoExc /\ DebugGiven) =>
              (result.kind = "raised" /\ ~HasErrorLine)
        /\ ArgumentError =>
              (result.code = 2 /\ stderr # <<>> /\ ~HasErrorLine)

C3_Witness ==
    /\ pc = "done"
    /\ func_exc # NoExc
    /\ ~DebugGiven
    /\ result.code = 1

(***************************************************************************)
(* C4.  --debug decides whether _main translates the subcommand's error.   *)
(***************************************************************************)
\* C4: an error raised by the subcommand is, without --debug, translated to
\* the single line `error: <message>` on stderr and exit status 1; with
\* --debug it is not caught: it leaves _main as it was raised, and _main
\* writes no `error:` line.
C4_DebugReraises ==
    (pc = "done" /\ func_exc # NoExc) =>
        IF DebugGiven
        THEN /\ result.kind = "raised"
             /\ ~HasErrorLine
        ELSE /\ result = [kind |-> "SystemExit", code |-> 1]
             /\ stderr = << <<"e", "r", "r", "o", "r", ":", " ">>
                            \o func_exc.msg >>

C4_Witness ==
    /\ pc = "done"
    /\ func_exc.type = "EncodeError"
    /\ DebugGiven
    /\ result.kind = "raised"

(***************************************************************************)
(* C5.  The shell converts only with the specification of the most recent  *)
(* compile command, and only if that command succeeded.                    *)
(***************************************************************************)
\* The lines typed at the prompt that are compile commands, and those that
\* are convert commands.
CompileLines ==
    {l \in BaseShellLines \cup CodecShellLines :
        StartsWith(Strip(l, Whitespace), s_compile)}

ConvertLines ==
    {l \in BaseShellLines \cup CodecShellLines :
        StartsWith(Strip(l, Whitespace), s_convert)}

\* The turns of the shell that are compile commands, and convert commands.
CompileTurns == {i \in ShellTurns : calls[i].line \in CompileLines}

ConvertTurns == {i \in ShellTurns : calls[i].line \in ConvertLines}

\* The compile command of turn i parsed the files and compiled them for both
\* codecs, and nothing raised.
CompileSucceeded(i) ==
    LET t == TurnOf(i)
    IN  /\ Len(t) = 3
        /\ t[1].op = "parse_files"
        /\ t[2].op = "compile_dict"
        /\ t[3].op = "compile_dict"
        /\ \A k \in 1..3 : t[k].exc = NoExc

\* The most recent compile command before turn i, and 0 if there is none.
LastCompileBefore(i) ==
    LET before == {j \in CompileTurns : j < i}
    IN  IF before = {} THEN 0
        ELSE CHOOSE j \in before : \A k \in before : k <= j

\* The most recent compile command before turn i exists and succeeded.
LastCompileSucceeded(i) ==
    LET c == LastCompileBefore(i)
    IN  c # 0 /\ CompileSucceeded(c)

NoSpecificationMessage ==
    <<"No compiled specification found. Please use the ",
      "'compile' command to compile one.">>

\* C5: a convert command decodes only if the most recent compile command
\* succeeded; if it failed, or there was none, convert prints the `No
\* compiled specification found` message and does nothing else, also when
\* an earlier compile had succeeded.
C5_ConvertNeedsLastCompile ==
    \A i \in ConvertTurns :
        LET ok == LastCompileSucceeded(i)
        IN  /\ CallsOf(i, {"decode"}) # {} => ok
            /\ ~ok => /\ Printed(TurnOf(i)) = <<NoSpecificationMessage>>
                      /\ Len(TurnOf(i)) = 1

C5_Witness ==
    \E i \in ConvertTurns :
        /\ ~LastCompileSucceeded(i)
        /\ \E j \in CompileTurns : j < i /\ CompileSucceeded(j)
        /\ Printed(TurnOf(i)) = <<NoSpecificationMessage>>

(***************************************************************************)
(* C6.  The codecs -i and -o accept, and their defaults.                   *)
(***************************************************************************)
InputCodecNames == {s_ber, s_der, s_jer, s_per, s_uper, s_xer}

OutputCodecNames == {s_ber, s_der, s_jer, s_per, s_uper, s_xer, s_gser}

\* The word that follows the first of the option words opts in words, and
\* default when none of them is there.
ValueOf(words, opts, default) ==
    LET at == {k \in 1..(Len(words) - 1) : words[k] \in opts}
    IN  IF at = {} THEN default
        ELSE words[(CHOOSE k \in at : \A m \in at : k <= m) + 1]

GivenInput(words) == ValueOf(words, {o_i, o_input_codec}, s_ber)

GivenOutput(words) == ValueOf(words, {o_o, o_output_codec}, s_gser)

\* The codecs a compile command asks for.
LineInput ==
    [l \in CompileLines |-> GivenInput(Split(Strip(l, Whitespace)))]

LineOutput ==
    [l \in CompileLines |-> GivenOutput(Split(Strip(l, Whitespace)))]

\* C6: on the command line and in the shell, -i accepts ber, der, jer, per,
\* uper and xer and nothing else, gser included; -o accepts these six and
\* gser and nothing else; without -i the input codec is ber and without -o
\* the output codec is gser.  The files are compiled for the input codec
\* first and for the output codec second, so never for gser as the input
\* codec.
C6_CodecChoices ==
    /\ pc # "start" =>
          LET gi == GivenInput(argv)
              go == GivenOutput(argv)
              main == calls[1].did
          IN  /\ (gi \notin InputCodecNames \/ go \notin OutputCodecNames)
                    => (result.code = 2 /\ calls = <<>>)
              /\ (argv \in CodecArgvs /\ gi \in InputCodecNames
                    /\ go \in OutputCodecNames)
                    => (args.subcommand = s_convert /\ Len(main) >= 3)
              /\ args.subcommand = s_convert
                    => /\ args.input_codec = gi
                       /\ args.output_codec = go
                       /\ Len(main) >= 2 => main[2].codec = gi
                       /\ Len(main) >= 3 => main[3].codec = go
    /\ \A i \in CompileTurns :
          LET gi == LineInput[calls[i].line]
              go == LineOutput[calls[i].line]
              t == TurnOf(i)
          IN  /\ (gi \notin InputCodecNames \/ go \notin OutputCodecNames)
                    => \A k \in 1..Len(t) : t[k].op = "print"
              /\ (calls[i].line \in CodecShellLines \cup {c_compile}
                    /\ gi \in InputCodecNames /\ go \in OutputCodecNames)
                    => CompileSucceeded(i)
              /\ CompileSucceeded(i)
                    => /\ t[2].codec = gi
                       /\ t[3].codec = go
                       /\ IsLastTurn(i) => output_codec = go
    /\ \A i \in 1..Len(calls) :
          LET t == TurnOf(i)
          IN  \A k \in 2..Len(t) :
                  t[k].op = "compile_dict" =>
                      IF t[k - 1].op = "parse_files"
                      THEN t[k].codec \in InputCodecNames
                      ELSE /\ t[k - 1].op = "compile_dict"
                           /\ t[k].codec \in OutputCodecNames

C6_Witness ==
    /\ pc = "done"
    /\ argv \in CodecArgvs
    /\ GivenInput(argv) = s_gser
    /\ GivenOutput(argv) = s_gser
    /\ result.code = 2

(***************************************************************************)
(* C7.  The order of the steps of _convert_hexstring and the form of what  *)
(* it prints.                                                              *)
(***************************************************************************)
\* text is data written as two hexadecimal digits an octet.
IsHexOf(text, data) ==
    /\ Len(text) = 2 * Len(data)
    /\ Unhexlify(text) = [exc |-> NoExc, data |-> data]

\* C7 for the calls t of one turn.
ConversionOrder(t) ==
    \A j \in 1..Len(t) :
        /\ t[j].op = "decode" =>
              /\ j > 1
              /\ t[j - 1].op = "unhexlify"
              /\ t[j - 1].exc = NoExc
              /\ IsHexOf(t[j - 1].arg, t[j].data)
        /\ t[j].op = "encode" =>
              /\ j > 1
              /\ t[j - 1].op = "decode"
              /\ t[j - 1].exc = NoExc
              /\ t[j].value = t[j - 1].value
              /\ t[j].type = t[j - 1].type
              /\ t[j].indent
                   = IF t[j].spec.codec \in {s_gser, s_xer, s_jer}
                     THEN 4 ELSE 0
        /\ (t[j].op = "print" /\ t[j].by = "_convert_hexstring") =>
              /\ j > 1
              /\ t[j - 1].op = "encode"
              /\ t[j - 1].exc = NoExc
              /\ IF t[j - 1].spec.codec \in {s_gser, s_xer, s_jer}
                 THEN t[j].text = DecodeLatin1(StripBytes(t[j - 1].returned))
                 ELSE IsHexOf(t[j].text, t[j - 1].returned)
        /\ (t[j].op \in {"unhexlify", "decode", "encode"}
              /\ t[j].exc = NoExc) =>
              /\ j < Len(t)
              /\ t[j + 1].op
                   = CASE t[j].op = "unhexlify" -> "decode"
                       [] t[j].op = "decode" -> "encode"
                       [] t[j].op = "encode" -> "print"
              /\ t[j].op = "encode" => t[j + 1].by = "_convert_hexstring"
        /\ (t[j].op \in {"unhexlify", "decode", "encode"}
              /\ t[j].exc # NoExc /\ j < Len(t)) =>
              t[j + 1].op = "print" /\ t[j + 1].by # "_convert_hexstring"

\* C7: a conversion is unhexlify, decode with the input specification, encode
\* with the output specification, print, in this order, each on the result
\* of the one before, and a step that fails is the last.  For the output
\* codecs gser, xer and jer encode is called with indent 4 and its result is
\* printed as text without the whitespace around it; for every other output
\* codec encode is called without indent and its result is printed in
\* hexadecimal.
C7_ConversionOrder == \A i \in 1..Len(calls) : ConversionOrder(TurnOf(i))

C7_Witness ==
    \E i \in 1..Len(calls) :
        LET t == TurnOf(i)
        IN  \E j \in 4..Len(t) :
                /\ t[j].op = "print"
                /\ t[j].by = "_convert_hexstring"
                /\ t[j - 1].spec.codec = s_jer
                /\ t[j - 1].returned = <<32, 84, 10>>
                /\ t[j].text = <<"T">>
                /\ t[j - 3].op = "unhexlify"

(***************************************************************************)
(* C8.  Parsing and compiling are done once, before any conversion.        *)
(***************************************************************************)
\* The specification a successful compile_dict call for codec returns, after
\* the parse_files call p of the record.
CompiledFrom(p, codec) ==
    compile_dict(parse_files(p.files).parsed, codec).spec

\* Every decode and encode call of t is made on the specifications compiled
\* by the calls c: parse_files, compile_dict for the input codec and
\* compile_dict for the output codec.
UsesCompiled(t, c) ==
    \A j \in 1..Len(t) :
        /\ t[j].op = "decode" => t[j].spec = CompiledFrom(c[1], c[2].codec)
        /\ t[j].op = "encode" => t[j].spec = CompiledFrom(c[1], c[3].codec)

MaxSeconds == 2

\* The path of the specification, from the directory of the script.
RRC_8_6_0_ASN_PATH == <<"..", "..", "tests", "files", "3gpp", "rrc_8_6_0.asn">>

\* The dictionary DECODED_MESSAGE: the script hands it to encode as it is and
\* reads nothing of it.
DECODED_MESSAGE == "DECODED_MESSAGE"

\* ENCODED_MESSAGE_BER: 410 octets, written as in the source, a line for a line.
ENCODED_MESSAGE_BER ==
    <<\h30, \h82, \h01, \h96, \ha0, \h82, \h01, \h92, \ha0, \h82, \h01, \h8e, \ha0, \h82, \h01, \h8a,
      \ha0, \h82, \h01, \h86, \ha0, \h82, \h01, \h82, \ha0, \h82, \h01, \h7e, \ha0, \h81, \hdd, \ha0,
      \h0f, \h80, \h01, \h01, \ha2, \h0a, \h80, \h01, \h0f, \h81, \h01, \h05, \h82, \h02, \h03, \hf0,
      \ha1, \h81, \had, \ha0, \h26, \ha0, \h0e, \h80, \h01, \h05, \ha1, \h09, \h80, \h01, \h06, \h81,
      \h01, \h01, \h82, \h01, \h00, \ha1, \h06, \h80, \h01, \h00, \h81, \h01, \h09, \ha2, \h09, \h80,
      \h01, \h05, \h81, \h01, \h04, \h82, \h01, \h05, \h83, \h01, \h08, \ha1, \h03, \h80, \h01, \h00,
      \ha2, \h06, \h80, \h01, \h03, \h81, \h01, \h01, \ha3, \h12, \h80, \h02, \h03, \h44, \ha1, \h0c,
      \h80, \h01, \h21, \h81, \h01, \h00, \h82, \h01, \h0a, \h83, \h01, \h40, \ha4, \h06, \h80, \h01,
      \hc4, \h81, \h01, \h02, \ha5, \h1c, \ha0, \h0c, \h80, \h01, \h01, \h81, \h01, \h00, \h82, \h01,
      \h0a, \h83, \h01, \h00, \ha1, \h0c, \h80, \h01, \h01, \h81, \h01, \h16, \h82, \h01, \h00, \h83,
      \h01, \h05, \ha6, \h0d, \h80, \h01, \h00, \h81, \h01, \h62, \h82, \h01, \h04, \h83, \h02, \h07,
      \hff, \ha7, \h0b, \ha1, \h09, \h80, \h01, \h00, \h81, \h01, \h04, \h82, \h01, \h01, \ha8, \h1d,
      \h80, \h01, \h82, \h81, \h01, \h00, \h82, \h01, \h81, \ha3, \h0f, \h80, \h01, \h00, \h81, \h01,
      \h00, \h82, \h01, \h01, \h83, \h01, \h00, \h84, \h01, \h01, \h84, \h01, \hff, \h89, \h01, \h00,
      \ha2, \h12, \h80, \h01, \h00, \h81, \h01, \h01, \h82, \h01, \h01, \h83, \h01, \h01, \h84, \h01,
      \h06, \h85, \h01, \h01, \ha3, \h03, \h82, \h01, \h03, \h85, \h01, \h00, \ha1, \h37, \ha0, \h1b,
      \h80, \h01, \h00, \ha1, \h16, \ha0, \h0c, \h80, \h01, \h03, \h81, \h01, \h03, \h82, \h01, \h01,
      \h83, \h01, \h10, \ha1, \h06, \h80, \h01, \h00, \h81, \h01, \h01, \ha1, \h06, \h81, \h01, \h07,
      \h82, \h01, \h03, \ha2, \h10, \h80, \h01, \hdf, \h82, \h01, \h00, \h84, \h01, \h00, \h85, \h02,
      \h06, \h80, \h86, \h01, \h04, \ha2, \h00, \ha3, \h20, \ha0, \h1e, \h30, \h1c, \h80, \h01, \h01,
      \h81, \h01, \hd3, \h83, \h01, \h00, \h85, \h01, \h1f, \h86, \h01, \h1d, \h87, \h01, \h00, \h88,
      \h01, \h01, \h8a, \h02, \h06, \h00, \h8b, \h01, \h0f, \ha4, \h03, \h82, \h01, \h03, \ha5, \h03,
      \h80, \h01, \h03, \ha6, \h0b, \ha3, \h09, \h81, \h07, \h06, \h01, \h23, \h45, \h67, \h89, \h00,
      \ha7, \h03, \h80, \h01, \h34, \ha8, \h0e, \h80, \h03, \h00, \h23, \h34, \h81, \h03, \h00, \h12,
      \h34, \h82, \h02, \h32, \h12, \ha9, \h13, \h80, \h03, \h00, \h67, \h88, \h81, \h03, \h00, \h54,
      \h35, \h82, \h01, \h00, \h83, \h01, \h13, \h84, \h01, \h12>>

\* ENCODED_MESSAGE_UPER: 71 octets, written as in the source, a line for a line.
ENCODED_MESSAGE_UPER ==
    <<\h04, \h81, \h3f, \hbe, \h2a, \h64, \h12, \hb2, \hf3, \h3a, \h24, \h2a, \h80, \h02, \h02, \h9b,
      \h29, \h8a, \h7f, \hf8, \h24, \h00, \h00, \h11, \h00, \h24, \he2, \h08, \h05, \h06, \hc3, \hc4,
      \h76, \h92, \h81, \h41, \h00, \hc0, \h00, \h00, \h0b, \h23, \hfd, \h10, \h80, \hca, \h19, \h82,
      \h80, \h48, \hd1, \h59, \he2, \h43, \ha0, \h1a, \h20, \h23, \h34, \h12, \h34, \h32, \h12, \h48,
      \hcf, \h10, \ha8, \h6a, \h4c, \h04, \h48>>

\* ENCODED_MESSAGE_PER: 75 octets, written as in the source, a line for a line.
ENCODED_MESSAGE_PER ==
    <<\h04, \h81, \h3f, \hbe, \h2a, \h64, \h12, \hb2, \hf3, \h20, \h03, \h44, \h85, \h50, \h00, \h40,
      \h53, \h65, \h31, \h40, \h07, \hff, \h82, \h40, \h00, \h01, \h10, \h02, \h4e, \h20, \h80, \h50,
      \h6c, \h3c, \h47, \h69, \h28, \h14, \h10, \h0c, \h00, \h00, \h00, \h01, \h64, \h7f, \ha2, \h10,
      \h19, \h43, \h30, \h50, \h01, \h23, \h45, \h67, \h89, \h0e, \h80, \h34, \h40, \h46, \h68, \h24,
      \h68, \h64, \h24, \h91, \h9e, \h21, \h50, \hd4, \h98, \h01, \h12>>

\* ENCODED_MESSAGE_JER: the text, a line of the source for a line.
ENCODED_MESSAGE_JER ==
    "{\"message\":{\"c1\":{\"systemInformation\":{\"criticalExtensions\":{\"sy"
    \o "stemInformation-r8\":{\"sib-TypeAndInfo\":[{\"sib2\":{\"ac-BarringInfo"
    \o "\":{\"ac-BarringForEmergency\":true,\"ac-BarringForMO-Data\":{\"ac-Bar"
    \o "ringFactor\":\"p95\",\"ac-BarringForSpecialAC\":\"f0\",\"ac-BarringTime\""
    \o ":\"s128\"}},\"freqInfo\":{\"additionalSpectrumEmission\":3},\"radioReso"
    \o "urceConfigCommon\":{\"bcch-Config\":{\"modificationPeriodCoeff\":\"n2\""
    \o "},\"pcch-Config\":{\"defaultPagingCycle\":\"rf256\",\"nB\":\"twoT\"},\"pdsc"
    \o "h-ConfigCommon\":{\"p-b\":2,\"referenceSignalPower\":-60},\"prach-Conf"
    \o "ig\":{\"prach-ConfigInfo\":{\"highSpeedFlag\":false,\"prach-ConfigInde"
    \o "x\":33,\"prach-FreqOffset\":64,\"zeroCorrelationZoneConfig\":10},\"roo"
    \o "tSequenceIndex\":836},\"pucch-ConfigCommon\":{\"deltaPUCCH-Shift\":\"d"
    \o "s1\",\"n1PUCCH-AN\":2047,\"nCS-AN\":4,\"nRB-CQI\":98},\"pusch-ConfigComm"
    \o "on\":{\"pusch-ConfigBasic\":{\"enable64QAM\":false,\"hoppingMode\":\"int"
    \o "erSubFrame\",\"n-SB\":1,\"pusch-HoppingOffset\":10},\"ul-ReferenceSign"
    \o "alsPUSCH\":{\"cyclicShift\":5,\"groupAssignmentPUSCH\":22,\"groupHoppi"
    \o "ngEnabled\":true,\"sequenceHoppingEnabled\":false}},\"rach-ConfigCom"
    \o "mon\":{\"maxHARQ-Msg3Tx\":8,\"powerRampingParameters\":{\"powerRamping"
    \o "Step\":\"dB0\",\"preambleInitialReceivedTargetPower\":\"dBm-102\"},\"pre"
    \o "ambleInfo\":{\"numberOfRA-Preambles\":\"n24\",\"preamblesGroupAConfig\""
    \o ":{\"messagePowerOffsetGroupB\":\"minusinfinity\",\"messageSizeGroupA\""
    \o ":\"b144\",\"sizeOfRA-PreamblesGroupA\":\"n28\"}},\"ra-SupervisionInfo\":"
    \o "{\"mac-ContentionResolutionTimer\":\"sf48\",\"preambleTransMax\":\"n8\","
    \o "\"ra-ResponseWindowSize\":\"sf6\"}},\"soundingRS-UL-ConfigCommon\":{\"s"
    \o "etup\":{\"ackNackSRS-SimultaneousTransmission\":true,\"srs-Bandwidth"
    \o "Config\":\"bw0\",\"srs-SubframeConfig\":\"sc4\"}},\"ul-CyclicPrefixLengt"
    \o "h\":\"len1\",\"uplinkPowerControlCommon\":{\"alpha\":\"al0\",\"deltaFList-"
    \o "PUCCH\":{\"deltaF-PUCCH-Format1\":\"deltaF-2\",\"deltaF-PUCCH-Format1b"
    \o "\":\"deltaF1\",\"deltaF-PUCCH-Format2\":\"deltaF0\",\"deltaF-PUCCH-Forma"
    \o "t2a\":\"deltaF-2\",\"deltaF-PUCCH-Format2b\":\"deltaF0\"},\"deltaPreambl"
    \o "eMsg3\":-1,\"p0-NominalPUCCH\":-127,\"p0-NominalPUSCH\":-126}},\"timeA"
    \o "lignmentTimerCommon\":\"sf500\",\"ue-TimersAndConstants\":{\"n310\":\"n2"
    \o "\",\"n311\":\"n2\",\"t300\":\"ms100\",\"t301\":\"ms200\",\"t310\":\"ms50\",\"t311\""
    \o ":\"ms30000\"}}},{\"sib3\":{\"cellReselectionInfoCommon\":{\"q-Hyst\":\"dB"
    \o "0\",\"speedStateReselectionPars\":{\"mobilityStateParameters\":{\"n-Ce"
    \o "llChangeHigh\":16,\"n-CellChangeMedium\":1,\"t-Evaluation\":\"s180\",\"t"
    \o "-HystNormal\":\"s180\"},\"q-HystSF\":{\"sf-High\":\"dB-4\",\"sf-Medium\":\"d"
    \o "B-6\"}}},\"cellReselectionServingFreqInfo\":{\"cellReselectionPriori"
    \o "ty\":3,\"threshServingLow\":7},\"intraFreqCellReselectionInfo\":{\"nei"
    \o "ghCellConfig\":\"80\",\"presenceAntennaPort1\":false,\"q-RxLevMin\":-33"
    \o ",\"s-IntraSearch\":0,\"t-ReselectionEUTRA\":4}}},{\"sib4\":{}},{\"sib5\""
    \o ":{\"interFreqCarrierFreqList\":[{\"allowedMeasBandwidth\":\"mbw6\",\"dl"
    \o "-CarrierFreq\":1,\"neighCellConfig\":\"00\",\"presenceAntennaPort1\":tr"
    \o "ue,\"q-OffsetFreq\":\"dB0\",\"q-RxLevMin\":-45,\"t-ReselectionEUTRA\":0,"
    \o "\"threshX-High\":31,\"threshX-Low\":29}]}},{\"sib6\":{\"t-ReselectionUT"
    \o "RA\":3}},{\"sib7\":{\"t-ReselectionGERAN\":3}},{\"sib8\":{\"parameters1X"
    \o "RTT\":{\"longCodeState1XRTT\":\"012345678900\"}}},{\"sib9\":{\"hnb-Name\""
    \o ":\"34\"}},{\"sib10\":{\"messageIdentifier\":\"2334\",\"serialNumber\":\"123"
    \o "4\",\"warningType\":\"3212\"}},{\"sib11\":{\"messageIdentifier\":\"6788\",\""
    \o "serialNumber\":\"5435\",\"warningMessageSegment\":\"12\",\"warningMessag"
    \o "eSegmentNumber\":19,\"warningMessageSegmentType\":\"notLastSegment\"}"
    \o "}]}}}}}}"

ITERATIONS == 1000

\* The calls encode_decode_<codec>() makes when nothing raises: compile_files
\* with the path and the codec given (none for BER), then timeit on encode
\* and timeit on decode, each ITERATIONS times.
EncodeDecodeCalls(by, codec, encoded) ==
    << [op |-> "compile_files", by |-> by,
        args |-> <<RRC_8_6_0_ASN_PATH>> \o codec],
       [op |-> "timeit", by |-> by, number |-> ITERATIONS,
        stmt |-> [op |-> "encode", type |-> "BCCH-DL-SCH-Message",
                  data |-> DECODED_MESSAGE]],
       [op |-> "timeit", by |-> by, number |-> ITERATIONS,
        stmt |-> [op |-> "decode", type |-> "BCCH-DL-SCH-Message",
                  data |-> encoded]] >>

\* encode_decode_<codec>(), called at the statement `at` of the script: the
\* n-th call raises (n = 0: none does) and the script ends there, or the two
\* measurements are returned and the script goes on at `next`.
EncodeDecode(at, next, name, by, codec, encoded) ==
    /\ bench_pc = at
    /\ \E n \in 0..3 :
          IF n = 0
          THEN \E encode_time \in 1..MaxSeconds :
               \E decode_time \in 1..MaxSeconds :
                  /\ bench_calls' = bench_calls
                                    \o EncodeDecodeCalls(by, codec, encoded)
                  /\ bench_times' = Append(bench_times,
                                           [codec |-> name,
                                            encode_time |-> encode_time,
                                            decode_time |-> decode_time])
                  /\ bench_pc' = next
          ELSE /\ bench_calls' =
                      bench_calls
                      \o SubSeq(EncodeDecodeCalls(by, codec, encoded), 1, n)
               /\ bench_pc' = "raised"
               /\ UNCHANGED bench_times
    /\ UNCHANGED <<bench_stdout, cliVars, perVars>>

RECURSIVE SortedBySeconds(_)
\* sorted(measurements, key=lambda m: m[1]): by seconds, the order of equal
\* ones kept.
SortedBySeconds(measurements) ==
    IF measurements = <<>>
    THEN <<>>
    ELSE LET n == Len(measurements)
             m == measurements[n]
             first == SortedBySeconds(SubSeq(measurements, 1, n - 1))
             k == Cardinality({i \in 1..(n - 1) : first[i][2] <= m[2]})
         IN  SubSeq(first, 1, k) \o <<m>> \o SubSeq(first, k + 1, n - 1)

\* The lines of a comparison: the heading and a line for each codec.
Comparison(verb, measurements) ==
    << <<>>, <<verb, ITERATIONS, " times took:">>, <<>>,
       <<"CODEC      SECONDS">> >>
    \o SortedBySeconds(measurements)

BenchInit ==
    /\ bench_pc = "start"
    /\ bench_calls = <<>>
    /\ bench_times = <<>>
    /\ bench_stdout = <<>>
    /\ CliIdle
    /\ PerIdle

\* print('Starting encoding and decoding ...')
BenchStart ==
    /\ bench_pc = "start"
    /\ bench_stdout' = << <<"Starting encoding and decoding of a message ",
                            ITERATIONS,
                            " times. This may take a few seconds.">> >>
    /\ bench_pc' = "ber"
    /\ UNCHANGED <<bench_calls, bench_times, cliVars, perVars>>

EncodeDecodeBer ==
    EncodeDecode("ber", "uper", "ber", "encode_decode_ber", <<>>,
                 ENCODED_MESSAGE_BER)

\* encode_decode_uper() as it would be if it decoded the message of
\* encode_decode_per().
EncodeDecodeUper_DecodesPer ==
    EncodeDecode("uper", "per", "uper", "encode_decode_uper", <<"uper">>,
                 ENCODED_MESSAGE_PER)

EncodeDecodeUper ==
    EncodeDecode("uper", "per", "uper", "encode_decode_uper", <<"uper">>,
                 ENCODED_MESSAGE_UPER)

EncodeDecodePer ==
    EncodeDecode("per", "jer", "per", "encode_decode_per", <<"per">>,
                 ENCODED_MESSAGE_PER)

EncodeDecodeJer ==
    EncodeDecode("jer", "report_encode", "jer", "encode_decode_jer",
                 <<"jer">>, ENCODED_MESSAGE_JER)

\* The encode comparison is sorted and printed.
ReportEncode ==
    /\ bench_pc = "report_encode"
    /\ bench_stdout' =
          bench_stdout
          \o Comparison("Encoding the message ",
                        [i \in 1..Len(bench_times) |->
                            <<bench_times[i].codec,
                              bench_times[i].encode_time>>])
    /\ bench_pc' = "report_decode"
    /\ UNCHANGED <<bench_calls, bench_times, cliVars, perVars>>

\* The decode comparison is sorted and printed; the script ends.
ReportDecode ==
    /\ bench_pc = "report_decode"
    /\ bench_stdout' =
          bench_stdout
          \o Comparison("Decoding the message ",
                        [i \in 1..Len(bench_times) |->
                            <<bench_times[i].codec,
                              bench_times[i].decode_time>>])
    /\ bench_pc' = "done"
    /\ UNCHANGED <<bench_calls, bench_times, cliVars, perVars>>

BenchNext ==
    \/ BenchStart
    \/ EncodeDecodeBer
    \/ EncodeDecodeUper
    \/ EncodeDecodePer
    \/ EncodeDecodeJer
    \/ ReportEncode
    \/ ReportDecode

BenchSpec == BenchInit /\ [][BenchNext]_vars

\* The calls to decode that encode_decode_uper() has timed.
UperDecodeCalls ==
    {i \in 1..Len(bench_calls) :
        /\ bench_calls[i].op = "timeit"
        /\ bench_calls[i].by = "encode_decode_uper"
        /\ bench_calls[i].stmt.op = "decode"}

\* The octets the claim gives as the start of the message.
UperMessageStart ==
    <<\h04, \h81, \h3F, \hBE, \h2A, \h64, \h12, \hB2, \hF3, \h3A, \h24>>

\* C11, as the specification states it: the UPER message the benchmark
\* decodes is 72 octets long and begins 04 81 3F BE 2A 64 12 B2 F3 3A 24.
C11_UperMessage72 ==
    \A i \in UperDecodeCalls :
        /\ Len(bench_calls[i].stmt.data) = 72
        /\ SubSeq(bench_calls[i].stmt.data, 1, 11) = UperMessageStart

\* C11, amended: the UPER message the benchmark decodes, the constant
\* ENCODED_MESSAGE_UPER, is 71 octets long and begins
\* 04 81 3F BE 2A 64 12 B2 F3 3A 24.
C11_UperMessage71 ==
    \A i \in UperDecodeCalls :
        /\ Len(bench_calls[i].stmt.data) = 71
        /\ SubSeq(bench_calls[i].stmt.data, 1, 11) = UperMessageStart

\* encode_decode_uper() has timed decode, ITERATIONS calls of it.
C11_Witness ==
    \E i \in UperDecodeCalls : bench_calls[i].number = ITERATIONS

(***************************************************************************)
(* The (U)PER codec, on SEQUENCE types of constrained INTEGERs and on      *)
(* constrained INTEGER types.  The bits written are a sequence of 0 and 1. *)
(***************************************************************************)
\* The INTEGER types compiled have every range 1..MaxRange, every value of
\* which is encoded, and the ranges of AlignedRanges.
MaxRange == 9

RECURSIVE BitLength(_)
\* The number of bits of n: BitLength(r - 1) is ceil(log2 r).
BitLength(n) == IF n = 0 THEN 0 ELSE 1 + BitLength(n \div 2)

RECURSIVE ToBits(_, _)
\* The number as a field of n bits, the most significant first.
ToBits(number, n) ==
    IF n = 0 THEN <<>> ELSE Append(ToBits(number \div 2, n - 1), number % 2)

RECURSIVE FromBits(_)
\* The number a field of bits holds.
FromBits(bits) ==
    IF bits = <<>>
    THEN 0
    ELSE 2 * FromBits(SubSeq(bits, 1, Len(bits) - 1)) + bits[Len(bits)]

\* align(): zero bits up to the next octet boundary.
Align(bits) == bits \o [i \in 1..((8 - (Len(bits) % 8)) % 8) |-> 0]

\* The octets of the bits written, the last one padded with zero bits.
ToOctets(bits) ==
    [i \in 1..(Len(Align(bits)) \div 8) |->
        FromBits(SubSeq(Align(bits), 8 * i - 7, 8 * i))]

\* The octets of the aligned field of a constrained integer of range r.
FieldOctets(r) == IF r <= 256 THEN 1 ELSE IF r <= 65536 THEN 2 ELSE 4

\* A constrained integer as it would be written if the number of bits were
\* taken from the upper bound and not from the range.
EncodeConstrainedInteger_BitsOfUpperBound(bits, value, lb, ub, aligned) ==
    IF ub - lb + 1 = 1
    THEN bits
    ELSE IF ~aligned
    THEN bits \o ToBits(value - lb, BitLength(ub))
    ELSE Align(bits) \o ToBits(value - lb, 8 * FieldOctets(ub))

\* A constrained integer of range r = ub - lb + 1 is written after bits:
\* nothing if r = 1, ceil(log2 r) bits if unaligned, an octet-aligned field
\* of 1, 2 or 4 octets if aligned.
EncodeConstrainedInteger(bits, value, lb, ub, aligned) ==
    IF ub - lb + 1 = 1
    THEN bits
    ELSE IF ~aligned
    THEN bits \o ToBits(value - lb, BitLength(ub - lb))
    ELSE Align(bits) \o ToBits(value - lb, 8 * FieldOctets(ub - lb + 1))

\* The preamble of a SEQUENCE as it would be with the bit of a component
\* that is present 0 and of one that is absent 1.
Preamble_Inverted(type, value) ==
    LET optional == SelectSeq(type.members, LAMBDA m : m.optional)
    IN  (IF type.extensible THEN <<0>> ELSE <<>>)
        \o [i \in 1..Len(optional) |->
               IF optional[i].name \in DOMAIN value THEN 0 ELSE 1]

\* The preamble of a SEQUENCE: the extension bit if the type is extensible
\* (0: no extension addition is present), then a bit for each OPTIONAL
\* component of the root, 1 if the value has it.
Preamble(type, value) ==
    LET optional == SelectSeq(type.members, LAMBDA m : m.optional)
    IN  (IF type.extensible THEN <<0>> ELSE <<>>)
        \o [i \in 1..Len(optional) |->
               IF optional[i].name \in DOMAIN value THEN 1 ELSE 0]

RECURSIVE EncodeMembers(_, _, _, _)
\* The components the value has are written after bits, in the order of the
\* type.
EncodeMembers(bits, members, value, aligned) ==
    IF members = <<>>
    THEN bits
    ELSE LET m == Head(members)
         IN  EncodeMembers(
                 IF m.name \in DOMAIN value
                 THEN EncodeConstrainedInteger(bits, value[m.name],
                                               m.type.lb, m.type.ub, aligned)
                 ELSE bits,
                 Tail(members), value, aligned)

\* encode(value): the bits written for a value of the type, and the octets
\* returned.
PerEncode(type, value, aligned) ==
    LET bits ==
            IF type.kind = "INTEGER"
            THEN EncodeConstrainedInteger(<<>>, value, type.lb, type.ub,
                                          aligned)
            ELSE EncodeMembers(Preamble(type, value), type.members, value,
                               aligned)
    IN  [bits |-> bits, octets |-> ToOctets(bits)]

\* get_bits(n) and the reading of a constrained integer at the bit cursor
\* pos (the number of bits read so far): the value and the cursor after it.
DecodeConstrainedInteger(bits, pos, lb, ub, aligned) ==
    LET r == ub - lb + 1
        at == IF aligned THEN 8 * ((pos + 7) \div 8) ELSE pos
        n == IF aligned THEN 8 * FieldOctets(r) ELSE BitLength(r - 1)
    IN  IF r = 1
        THEN [value |-> lb, pos |-> pos]
        ELSE [value |-> lb + FromBits(SubSeq(bits, at + 1, at + n)),
              pos |-> at + n]

RECURSIVE DecodeMembers(_, _, _, _, _, _)
\* The components of a SEQUENCE are read at the cursor pos, in the order of
\* the type: present holds the bits of the preamble still to be used, value
\* the components read so far.
DecodeMembers(bits, pos, members, present, value, aligned) ==
    IF members = <<>>
    THEN value
    ELSE LET m == Head(members)
             d == DecodeConstrainedInteger(bits, pos, m.type.lb, m.type.ub,
                                           aligned)
         IN  IF m.optional /\ Head(present) = 0
             THEN DecodeMembers(bits, pos, Tail(members), Tail(present),
                                value, aligned)
             ELSE DecodeMembers(bits, d.pos, Tail(members),
                                IF m.optional THEN Tail(present)
                                ELSE present,
                                (m.name :> d.value) @@ value, aligned)

\* decode(octets): the value of the type the octets hold.
PerDecode(type, octets, aligned) ==
    LET bits == [i \in 1..(8 * Len(octets)) |->
                    ToBits(octets[(i + 7) \div 8], 8)[((i - 1) % 8) + 1]]
        first == IF type.extensible THEN 1 ELSE 0
        optional == SelectSeq(type.members, LAMBDA m : m.optional)
    IN  IF type.kind = "INTEGER"
        THEN DecodeConstrainedInteger(bits, 0, type.lb, type.ub,
                                      aligned).value
        ELSE DecodeMembers(bits, first + Len(optional), type.members,
                           SubSeq(bits, first + 1, first + Len(optional)),
                           <<>>, aligned)

\* INTEGER (lb..ub)
IntegerType(lb, ub) == [kind |-> "INTEGER", lb |-> lb, ub |-> ub]

\* The ranges at which the aligned field changes its size.
AlignedRanges == {255, 256, 257, 65536}

\* The INTEGER types compiled.
IntegerTypes ==
    {IntegerType(lb, lb + r - 1) :
        lb \in {-1, 0, 4}, r \in (1..MaxRange) \cup AlignedRanges}

\* The values of an INTEGER type that are encoded: all of a range up to
\* MaxRange, the two lowest and the two highest of a wider one.
IntegerValues(type) ==
    IF type.ub - type.lb < MaxRange
    THEN type.lb..type.ub
    ELSE {type.lb, type.lb + 1, type.ub - 1, type.ub}

\* The SEQUENCE types compiled: X ::= SEQUENCE { a INTEGER (..), b INTEGER
\* (..) }, each component OPTIONAL or not, with and without the extension
\* marker.
SequenceTypes ==
    {[kind |-> "SEQUENCE", extensible |-> e,
      members |-> << [name |-> "a", type |-> ta, optional |-> oa],
                     [name |-> "b", type |-> tb, optional |-> ob] >>] :
        e \in BOOLEAN, oa \in BOOLEAN, ob \in BOOLEAN,
        ta \in {IntegerType(0, 3), IntegerType(1, 2)},
        tb \in {IntegerType(0, 3), IntegerType(4, 8)}}

\* The values of a SEQUENCE type: a component that is not OPTIONAL is there,
\* an OPTIONAL one is there or not.
SequenceValues(type) ==
    LET a == type.members[1]
        b == type.members[2]
        Given(m) == {[x \in {m.name} |-> v] : v \in IntegerValues(m.type)}
                    \cup (IF m.optional THEN {<<>>} ELSE {})
    IN  {va @@ vb : va \in Given(a), vb \in Given(b)}

PerInit ==
    /\ per_pc = "compiled"
    /\ per_type \in IntegerTypes \cup SequenceTypes
    /\ per_aligned \in BOOLEAN
    /\ per_value \in IF per_type.kind = "INTEGER"
                     THEN IntegerValues(per_type)
                     ELSE SequenceValues(per_type)
    /\ per_encoded = <<>>
    /\ per_decoded = <<>>
    /\ CliIdle
    /\ BenchIdle

\* encode(per_value)
Encode ==
    /\ per_pc = "compiled"
    /\ per_encoded' = PerEncode(per_type, per_value, per_aligned)
    /\ per_pc' = "encoded"
    /\ UNCHANGED <<per_type, per_aligned, per_value, per_decoded, cliVars,
                   benchVars>>

\* decode() of the octets encode returned
Decode ==
    /\ per_pc = "encoded"
    /\ per_decoded' = PerDecode(per_type, per_encoded.octets, per_aligned)
    /\ per_pc' = "decoded"
    /\ UNCHANGED <<per_type, per_aligned, per_value, per_encoded, cliVars,
                   benchVars>>

PerNext ==
    \/ Encode
    \/ Decode

PerSpec == PerInit /\ [][PerNext]_vars

\* X ::= SEQUENCE { a INTEGER (0..3), b INTEGER (0..3) OPTIONAL }
TypeX ==
    [kind |-> "SEQUENCE", extensible |-> FALSE,
     members |-> << [name |-> "a", type |-> IntegerType(0, 3),
                     optional |-> FALSE],
                    [name |-> "b", type |-> IntegerType(0, 3),
                     optional |-> TRUE] >>]

\* The UPER codec has encoded the value of the type.
UperEncoded(type, value) ==
    /\ per_pc # "compiled"
    /\ ~per_aligned
    /\ per_type = type
    /\ per_value = value

\* The field of the component of a SEQUENCE, if the encoded value has it.
FieldOf(m) ==
    IF m.name \in DOMAIN per_value
    THEN ToBits(per_value[m.name] - m.type.lb,
                BitLength(m.type.ub - m.type.lb))
    ELSE <<>>

\* The UPER encoding of a SEQUENCE is a bit for each OPTIONAL component of
\* the root, 1 if the value has it (after the extension bit if the type is
\* extensible), and then the components the value has, in the order of the
\* type.
PreambleThenComponents ==
    (per_pc # "compiled" /\ ~per_aligned /\ per_type.kind = "SEQUENCE")
    => LET a == per_type.members[1]
           b == per_type.members[2]
           Bit(m) == IF ~m.optional THEN <<>>
                     ELSE IF m.name \in DOMAIN per_value THEN <<1>>
                     ELSE <<0>>
       IN  per_encoded.bits =
               (IF per_type.extensible THEN <<0>> ELSE <<>>)
               \o Bit(a) \o Bit(b) \o FieldOf(a) \o FieldOf(b)

\* C12, as the specification states it: in UPER the value {a=2, b absent} of
\* X encodes to the octet 40 and the value {a=2, b=1} to the octet A4, the
\* preamble being a bit for each OPTIONAL component, followed by the
\* components in the order of the type.
C12_OptionalA4 ==
    /\ UperEncoded(TypeX, [a |-> 2]) => per_encoded.octets = <<\h40>>
    /\ UperEncoded(TypeX, [a |-> 2, b |-> 1])
       => per_encoded.octets = <<\hA4>>
    /\ PreambleThenComponents

\* C12, amended: in UPER the value {a=2, b absent} of X encodes to the octet
\* 40 (the bits 0, 10 and padding) and the value {a=2, b=1} to the octet C8
\* (the bits 1, 10, 01 and padding), the preamble being a bit for each
\* OPTIONAL component, followed by the components in the order of the type.
C12_OptionalC8 ==
    /\ UperEncoded(TypeX, [a |-> 2])
       => /\ per_encoded.bits = <<0, 1, 0>>
          /\ per_encoded.octets = <<\h40>>
    /\ UperEncoded(TypeX, [a |-> 2, b |-> 1])
       => /\ per_encoded.bits = <<1, 1, 0, 0, 1>>
          /\ per_encoded.octets = <<\hC8>>
    /\ PreambleThenComponents

\* The value {a=2, b=1} of X has been encoded with UPER.
C12_Witness == UperEncoded(TypeX, [a |-> 2, b |-> 1])

\* ceil(log2 r): the least n with 2^n >= r.
CeilLog2(r) == CHOOSE n \in 0..17 : 2^n >= r /\ \A k \in 0..(n - 1) : 2^k < r

\* The octets of the smallest of the fields of 1, 2 and 4 octets that holds
\* r values.
SmallestField(r) ==
    LET Holds(n) == (r - 1) \div 256^(n - 1) < 256
    IN  CHOOSE n \in {1, 2, 4} :
            Holds(n) /\ \A k \in {1, 2, 4} : Holds(k) => n <= k

\* C13: the encoding of a value of an INTEGER constrained to lb..ub, of range
\* r = ub - lb + 1, has ceil(log2 r) bits in UPER (none when r = 1) and in
\* aligned PER fills the smallest of the aligned fields of 1, 2 and 4 octets
\* that holds r values (nothing is written when r = 1); in UPER the value 5
\* of INTEGER (0..7) gives the bits 101, the octet A0, and the value 0 the
\* octet 00.
C13_PerBoundary ==
    (per_pc # "compiled" /\ per_type.kind = "INTEGER")
    => LET r == per_type.ub - per_type.lb + 1
       IN  /\ ~per_aligned => Len(per_encoded.bits) = CeilLog2(r)
           /\ per_aligned
              => Len(per_encoded.bits) =
                     IF r = 1 THEN 0 ELSE 8 * SmallestField(r)
           /\ UperEncoded(IntegerType(0, 7), 5)
              => /\ per_encoded.bits = <<1, 0, 1>>
                 /\ per_encoded.octets = <<\hA0>>
           /\ UperEncoded(IntegerType(0, 7), 0)
              => per_encoded.octets = <<\h00>>

\* The value 5 of INTEGER (0..7) has been encoded with UPER.
C13_Witness == UperEncoded(IntegerType(0, 7), 5) /\ per_pc = "encoded"

(***************************************************************************)
(* C14.  --verbose and the level of the root logger.                       *)
(***************************************************************************)
\* The word given to -v or --verbose; <<>> when the option is not there.
VerboseGiven == ValueOf(argv, {o_v, o_verbose}, <<>>)

\* _main has called logging.basicConfig.
Configured == pc # "start" /\ args.subcommand # <<>>

\* The severities of the records that the root logger emits.
Emitted == {severity \in Severities : IsEnabledFor(severity, level)}

\* --verbose takes the values 0, 1 and 2 and no other: any other ends the
\* run with an argument error before the logger is set up.  1 and no option
\* give the level WARNING, 2 gives DEBUG and 0 gives CRITICAL.
VerboseLevels ==
    /\ VerboseGiven \notin {<<>>, s_0, s_1, s_2}
       => /\ ~Configured
          /\ pc = "done" => result = [kind |-> "SystemExit", code |-> 2]
    /\ Configured
       => /\ VerboseGiven = s_0 => level = CRITICAL
          /\ VerboseGiven \in {<<>>, s_1}
             => level = WARNING /\ Emitted = {30, 40, 50}
          /\ VerboseGiven = s_2 => level = DEBUG /\ Emitted = Severities

\* C14: --verbose takes exactly the values 0, 1 and 2, which set the log
\* level to silent (no record of any severity is emitted), warning and
\* debug; without the option the level is warning.
C14_VerboseSilentWarningDebug ==
    /\ VerboseLevels
    /\ (Configured /\ VerboseGiven = s_0) => Emitted = {}

\* The logger has been set up by a run with --verbose 0.
C14_Witness == Configured /\ VerboseGiven = s_0

(***************************************************************************)
(* C15.  The shell goes on after a command that fails.                     *)
(***************************************************************************)
\* The compile commands, and the convert commands, that the parser of the
\* command rejects.
CompileArgumentErrors ==
    {l \in CompileLines :
        ParseCompileArgs(Rest(Split(Strip(l, Whitespace)))).status = "error"}

ConvertArgumentErrors ==
    {l \in ConvertLines :
        ParseShellConvertArgs(Rest(Split(Strip(l, Whitespace)))).status
            = "error"}

\* The shell, at the prompt, reads a line: the step that handles it.
ShellReadsLine == pc = "shell" /\ nread' = nread + 1

\* The exceptions raised by the calls of the turn t.
RaisedBy(t) ==
    {k \in 1..Len(t) : t[k].op # "print" /\ t[k].exc # NoExc}

\* C15: the loop of the shell ends only on a line that is `exit` once
\* stripped, or at the end of input.  After a compile or convert command it
\* prompts again, whatever failed: an exception of the parser, the compiler,
\* unhexlify or a codec is reported by a line on stdout that begins
\* `error: `, an argument error by the usage and error lines of the command,
\* also on stdout and nothing goes to stderr.  A convert command, failed or
\* not, leaves the input specification, the output specification and the
\* output codec as they were.
C15_ShellGoesOn ==
    [][ /\ (pc = "shell" /\ pc' # "shell")
           => \/ nread' = nread /\ calls' = calls
              \/ /\ ShellReadsLine
                 /\ Strip(calls'[Len(calls')].line, Whitespace) = s_exit
        /\ ShellReadsLine
           => LET line == calls'[Len(calls')].line
                  t == calls'[Len(calls')].did
              IN  /\ line \in CompileLines \cup ConvertLines
                     => pc' = "shell" /\ stderr' = stderr
                  /\ RaisedBy(t) # {}
                     => /\ line \in CompileLines \cup ConvertLines
                        /\ t[Len(t)].op = "print"
                        /\ StartsWith(t[Len(t)].text, s_error_prefix)
                  /\ (\/ line \in CompileArgumentErrors
                      \/ line \in ConvertArgumentErrors
                         /\ ~IsFalse(input_spec))
                     => /\ Len(t) = 2
                        /\ \A k \in 1..2 : t[k].op = "print"
                  /\ line \in ConvertLines
                     => /\ input_spec' = input_spec
                        /\ output_spec' = output_spec
                        /\ output_codec' = output_codec
      ]_vars

\* A convert command whose conversion raised, with a compiled specification
\* in place, and the shell at the prompt again after it.
C15_Witness ==
    /\ pc = "shell"
    /\ ~IsFalse(input_spec)
    /\ Len(calls) > 1
    /\ calls[Len(calls)].line \in ConvertLines
    /\ RaisedBy(calls[Len(calls)].did) # {}

(***************************************************************************)
(* C16.  How the shell dispatches a line, and what a line can change.      *)
(***************************************************************************)
\* The turn t did what _handle_command_compile does and nothing else: it
\* parsed or compiled, or printed from _handle_command_compile.
HandledAsCompile(t) ==
    /\ t # <<>>
    /\ \A k \in 1..Len(t) :
          IF t[k].op = "print"
          THEN t[k].by = "_handle_command_compile"
          ELSE t[k].op \in {"parse_files", "compile_dict"}

\* The turn t did what _handle_command_convert does and nothing else: it
\* converted, or printed from _handle_command_convert or _convert_hexstring.
HandledAsConvert(t) ==
    /\ t # <<>>
    /\ \A k \in 1..Len(t) :
          IF t[k].op = "print"
          THEN t[k].by \in {"_handle_command_convert", "_convert_hexstring"}
          ELSE t[k].op \in {"unhexlify", "decode", "encode"}

\* C16: a line that is empty once stripped does nothing; one that starts
\* with `compile` is handled as a compile command and one that starts with
\* `convert` as a convert command, whatever follows the word; `help` prints
\* the list of commands and `exit` leaves the shell, each only as the whole
\* line; any other line prints `<line>: command not found`.  Only a compile
\* command changes the input specification, the output specification or the
\* output codec.
C16_ShellDispatch ==
    [][ ShellReadsLine
        => LET raw == calls'[Len(calls')].line
               line == Strip(raw, Whitespace)
               t == calls'[Len(calls')].did
           IN  /\ line = <<>> => t = <<>> /\ pc' = "shell"
               /\ raw \in CompileLines => HandledAsCompile(t)
               /\ raw \in ConvertLines => HandledAsConvert(t)
               /\ line = s_help
                  => /\ Printed(t) = << <<"Commands:">>, <<"  compile">>,
                                        <<"  convert">>, <<"  exit">>,
                                        <<"  help">> >>
                     /\ Len(t) = 5
                     /\ pc' = "shell"
               /\ line = s_exit => t = <<>> /\ pc' = "done"
               /\ (/\ line \notin {<<>>, s_help, s_exit}
                   /\ raw \notin CompileLines \cup ConvertLines)
                  => /\ t = <<Stdout("_do_shell",
                                     line \o <<": command not found">>)>>
                     /\ pc' = "shell"
               /\ raw \notin CompileLines
                  => /\ input_spec' = input_spec
                     /\ output_spec' = output_spec
                     /\ output_codec' = output_codec
      ]_vars

\* With a specification compiled by `compilexyz ...`, the shell has answered
\* `helpx` with `helpx: command not found`.
C16_Witness ==
    /\ ~IsFalse(input_spec)
    /\ \E i \in ShellTurns : i < Len(calls) /\ calls[i].line = c_compile_prefix
    /\ calls[Len(calls)].line = c_help_prefix
    /\ Printed(calls[Len(calls)].did)
           = << c_help_prefix \o <<": command not found">> >>

(***************************************************************************)
(* C17.  convert with hexstring `-`: what every line of input yields.      *)
(***************************************************************************)
\* The turns of the loop over stdin whose line is empty once CR and LF are
\* removed, and those whose line unhexlify rejects.
EmptyLineTurns == {i \in StdinTurns : Strip(calls[i].line, CRLF) = <<>>}

NotHexTurns == {i \in StdinTurns : RaisedIn(i, {"unhexlify"}) # {}}

\* An empty line is echoed as an empty line and nothing is called for it; a
\* line that is not hex is echoed alone, after the call of unhexlify that
\* raised; the loop goes on after both, and a run whose last line is one of
\* them ends with exit code 0.
StdinEchoes ==
    /\ \A i \in EmptyLineTurns :
          TurnOf(i) = <<Stdout("_do_convert", <<>>)>>
    /\ \A i \in NotHexTurns :
          /\ Len(TurnOf(i)) = 2
          /\ TurnOf(i)[1].op = "unhexlify"
          /\ TurnOf(i)[2] = Stdout("_do_convert", Strip(calls[i].line, CRLF))
    /\ \A i \in EmptyLineTurns \cup NotHexTurns :
          IsLastTurn(i)
          => \/ pc = "convert" /\ result = Running
             \/ pc = "done" /\ result = [kind |-> "returned", code |-> 0]

\* C17: in convert with hexstring `-` every line read yields output on
\* stdout, in the order of the input: an empty line is echoed with no call
\* of unhexlify or decode, a line that is not hex is echoed alone, and
\* neither ends the loop or changes the exit code from 0.
C17_EveryLineYieldsOutput ==
    /\ \A i \in StdinTurns : Printed(TurnOf(i)) # <<>>
    /\ StdinEchoes

\* An empty line and a line that is not hex have been read, and the run has
\* ended.
C17_Witness ==
    /\ EmptyLineTurns # {}
    /\ NotHexTurns # {}
    /\ pc = "done"

====
